---- MODULE Spec2Model ----
(***************************************************************************)
(* Position Risk & Decision Engine of pro_manager.py                       *)
(* (ProfessionalTradeManager and AdvancedAnalytics).                       *)
(*                                                                         *)
(* Units.  The source computes in floating point; the model computes the   *)
(* same expressions in exact integer arithmetic on scaled values:          *)
(*   - underlying (stock) prices, ATR and stop levels are in cents;        *)
(*   - option prices, bid, ask and theta are in cents;                     *)
(*   - implied volatility is in percent points (0.40 is 40), so the        *)
(*     source thresholds -0.1 and -0.05 on iv_change are -10 and -5;       *)
(*   - percentages (P&L, IV rank, scores of the liquidity and gamma        *)
(*     models) are in percent.                                             *)
(* The input sets below are chosen so that every division the source       *)
(* performs on them is exact (entry option price 100 makes pnl_percent an  *)
(* integer; underlying prices are multiples of 800 so that 1.5% of the     *)
(* price and a quarter of it are whole cents).                             *)
(***************************************************************************)
EXTENDS Integers, Sequences, FiniteSets, TLC

VARIABLES
  positions,       \* ProfessionalTradeManager.positions: id -> Position
  snapshot,        \* the answers of the gateway to the latest fetch
  positions_file,  \* the content of positions.json: id -> saved record
  threads,         \* the request threads of the web server
  dashboard        \* the position list of the latest get_data

vars == <<positions, snapshot, positions_file, threads, dashboard>>

----------------------------------------------------------------------------
(* Position configuration defaults (dataclass field defaults).             *)

breakeven_trigger_pct == 30
atr_trail_trigger_pct == 20
atr_trail_mult == 2
runner_trail_mult == 1
runner_min_dte == 7
t1_target_pct == 50
t2_target_pct == 100

----------------------------------------------------------------------------
(* Bounds of the model: the largest days-to-expiry and the largest option  *)
(* mark the market-data gateway reports.                                   *)

MaxDTE == 45
MaxMark == 200

----------------------------------------------------------------------------
(* Small helpers for Python semantics.                                     *)

\* Python's "x or y" on numbers: y when x is falsy (zero).
PyOr(x, y) == IF x # 0 THEN x ELSE y

Max(a, b) == IF a >= b THEN a ELSE b
Min(a, b) == IF a <= b THEN a ELSE b
Abs(a) == IF a >= 0 THEN a ELSE 0 - a

----------------------------------------------------------------------------
(* Enumerations.                                                           *)

TradeStatus ==
  {"BUILDING", "HOLDING_STRONG", "HOLDING_GOOD", "HOLDING_NEUTRAL",
   "HOLDING_WEAK", "TAKE_PARTIAL", "TAKE_FULL", "RUNNER_ACTIVE",
   "CONSIDER_ROLL", "WARNING_THETA", "WARNING_GAMMA", "WARNING_IV_CRUSH",
   "WARNING_LIQUIDITY", "EXIT_STOP", "EXIT_TARGET", "EXIT_TIME"}

Action ==
  {"HOLD", "ADD", "TIGHTEN_STOP", "TAKE_PARTIAL", "TAKE_FULL", "CLOSE_RUNNER",
   "ROLL_OUT", "ROLL_UP", "ROLL_DOWN", "EXIT_NOW", "REDUCE_SIZE"}

----------------------------------------------------------------------------
(* Sub-records as constructed by the dataclass defaults.                   *)

Greeks ==
  [delta |-> 0, gamma |-> 0, theta |-> 0, vega |-> 0,
   iv |-> 0, iv_rank |-> 0, entry_delta |-> 0, entry_iv |-> 0]

ThetaAnalysis ==
  [daily_decay |-> 0, decay_rate_pct |-> [num |-> 0, den |-> 1],
   acceleration_phase |-> "NORMAL"]

GammaAnalysis ==
  [gamma_risk_score |-> 0, is_near_strike |-> FALSE, is_near_expiry |-> FALSE,
   gamma_explosion_risk |-> FALSE]

LiquidityAnalysis ==
  [bid |-> 0, ask |-> 0, spread |-> 0, volume |-> 0, open_interest |-> 0,
   liquidity_score |-> 0]

ExpectedMove == [prob_above_target |-> 0]

RollAnalysis ==
  [should_roll |-> FALSE, roll_urgency |-> "NONE", roll_type |-> "",
   urgency_score |-> 0]

MarketContext ==
  [trend_daily |-> "NEUTRAL", trend_alignment |-> FALSE, rsi |-> 50,
   macd_signal |-> "NEUTRAL", atr |-> 0, support_1 |-> 0,
   regime |-> "NEUTRAL"]

PositionScore ==
  [overall_score |-> 0, pnl_score |-> 0, theta_score |-> 0, gamma_score |-> 0,
   iv_score |-> 0, liquidity_score |-> 0, momentum_score |-> 0,
   probability_score |-> 0]

StopLevels ==
  [original |-> 0, breakeven |-> 0, atr_trail |-> 0, support_based |-> 0,
   runner_trail |-> 0, recommended |-> 0, method |-> "ORIGINAL",
   needs_update |-> FALSE]

ScalingState ==
  [t1_target_pct |-> t1_target_pct, t2_target_pct |-> t2_target_pct,
   t1_triggered |-> FALSE, t1_price |-> 0, t1_date |-> 0,
   t2_triggered |-> FALSE, t2_price |-> 0, t2_date |-> 0,
   runner_active |-> FALSE, runner_closed |-> FALSE,
   runner_exit_reason |-> "", runner_exit_price |-> 0,
   extended_target |-> 0]

\* Position(...) followed by __post_init__: the high/low water marks start
\* at the entry price when the caller leaves them at 0.
Position(id, position_type, strike, entry_stock_price, entry_option_price, stop_price, target_price, entry_iv, entry_delta) ==
  [id |-> id, position_type |-> position_type, strike |-> strike,
   entry_stock_price |-> entry_stock_price,
   entry_option_price |-> entry_option_price,
   stop_price |-> stop_price, target_price |-> target_price,
   current_stock_price |-> 0, current_option_price |-> 0, current_dte |-> 0,
   highest_since_entry |-> entry_stock_price,
   lowest_since_entry |-> entry_stock_price,
   greeks |-> [Greeks EXCEPT !.iv = entry_iv, !.delta = entry_delta],
   theta_analysis |-> ThetaAnalysis, gamma_analysis |-> GammaAnalysis,
   liquidity |-> LiquidityAnalysis, expected_move |-> ExpectedMove,
   roll_analysis |-> RollAnalysis, market |-> MarketContext,
   score |-> PositionScore, stops |-> StopLevels, scaling |-> ScalingState,
   status |-> "BUILDING", action |-> "HOLD",
   breakeven_trigger_pct |-> breakeven_trigger_pct,
   atr_trail_trigger_pct |-> atr_trail_trigger_pct,
   atr_trail_mult |-> atr_trail_mult, runner_trail_mult |-> runner_trail_mult,
   runner_min_dte |-> runner_min_dte]

is_call(p) == p.position_type = "LONG_CALL"

\* Position.pnl_percent.  Exact for the entry prices of the model.
pnl_percent(p) ==
  IF p.entry_option_price <= 0 THEN 0
  ELSE ((p.current_option_price - p.entry_option_price) * 100)
         \div p.entry_option_price

\* Greeks.iv_change
iv_change(g) == IF g.entry_iv # 0 THEN g.iv - g.entry_iv ELSE 0

----------------------------------------------------------------------------
(* Rational numbers num/den with den > 0, for the ratios the source keeps  *)
(* as floats and only compares with thresholds.                            *)

Rat(n, d) == [num |-> n, den |-> d]
RatLE(r, k) == r.num <= k * r.den
RatLT(r, k) == r.num < k * r.den
RatGT(r, k) == r.num > k * r.den
RatGE(r, k) == r.num >= k * r.den

----------------------------------------------------------------------------
(* PolygonAPI: the answers of the market-data gateway for one cycle.       *)
(* snapshot.stock is the dict of get_stock_snapshot, snapshot.option the   *)
(* dict of get_option_snapshot, snapshot.history a summary of the bars of  *)
(* get_stock_history (bars = 0 is the empty list), snapshot.iv_history a   *)
(* summary of get_iv_history (n = 0 is the empty list) and snapshot.days   *)
(* the days from datetime.now() to the expiration.                         *)

\* get_stock_snapshot: {'price': 0} when both requests fail.
StockFail == [price |-> 0]

\* get_option_snapshot: the all-zero data dict when both requests fail.
OptionFail ==
  [bid |-> 0, ask |-> 0, last |-> 0, mark |-> 0, volume |-> 0,
   open_interest |-> 0, delta |-> 0, gamma |-> 0, theta |-> 0, vega |-> 0,
   iv |-> 0]

\* get_option_snapshot on a v3 snapshot answer: mark is the mid of bid and
\* ask when both are present.
OptionQuote(bid, ask, last, volume, oi, delta, gamma, theta, vega, iv) ==
  [bid |-> bid, ask |-> ask, last |-> last,
   mark |-> IF bid # 0 /\ ask # 0 THEN (bid + ask) \div 2 ELSE last,
   volume |-> volume, open_interest |-> oi, delta |-> delta, gamma |-> gamma,
   theta |-> theta, vega |-> vega, iv |-> iv]

\* get_stock_history / get_iv_history answering nothing.
HistoryFail ==
  [bars |-> 0, trend |-> "NEUTRAL", rsi |-> 50, macd_hist |-> 0, atr |-> 0,
   support_1 |-> 0]
IvHistoryFail == [n |-> 0, low |-> 0, high |-> 0]

----------------------------------------------------------------------------
(* ProfessionalTradeManager._fetch_live_data                               *)

\* The liquidity score of _fetch_live_data.
liquidity_score(spread_pct, open_interest, volume) ==
  LET s0 == 50
      s1 == IF RatLE(spread_pct, 1) THEN s0 + 25
            ELSE IF RatLE(spread_pct, 3) THEN s0 + 15
            ELSE IF RatGT(spread_pct, 10) THEN s0 - 25
            ELSE s0
      s2 == IF open_interest >= 1000 THEN s1 + 15
            ELSE IF open_interest >= 100 THEN s1 + 5
            ELSE IF open_interest < 50 THEN s1 - 15
            ELSE s1
      s3 == IF volume >= 100 THEN s2 + 10 ELSE s2
  IN  Max(0, Min(100, s3))

fetch_live_data(p, snap) ==
  LET stock == snap.stock
      option == snap.option
      price == PyOr(stock.price, p.current_stock_price)
      optprice == IF option.mark # 0 \/ option.last # 0
                  THEN PyOr(option.mark, option.last)
                  ELSE p.current_option_price
      g == [p.greeks EXCEPT
              !.delta = PyOr(PyOr(option.delta, p.greeks.delta),
                             p.greeks.entry_delta),
              !.gamma = PyOr(option.gamma, p.greeks.gamma),
              !.theta = PyOr(option.theta, p.greeks.theta),
              !.vega = PyOr(option.vega, p.greeks.vega),
              !.iv = PyOr(option.iv, p.greeks.iv)]
      spread == option.ask - option.bid
      \* mid = (bid + ask) / 2 if ask > 0 else current_option_price;
      \* spread_pct = spread / mid * 100 if mid > 0 else 0
      spread_pct == IF option.ask > 0
                    THEN (IF option.bid + option.ask > 0
                          THEN Rat(spread * 200, option.bid + option.ask)
                          ELSE Rat(0, 1))
                    ELSE (IF optprice > 0 THEN Rat(spread * 100, optprice)
                          ELSE Rat(0, 1))
      liq == [bid |-> option.bid, ask |-> option.ask, spread |-> spread,
              volume |-> option.volume,
              open_interest |-> option.open_interest,
              liquidity_score |->
                liquidity_score(spread_pct, option.open_interest,
                                option.volume)]
      low0 == IF p.lowest_since_entry = 0 THEN price
              ELSE p.lowest_since_entry
  IN  [p EXCEPT
         !.current_stock_price = price,
         !.current_option_price = optprice,
         !.greeks = g,
         !.liquidity = liq,
         !.current_dte = Max(0, snap.days),
         !.highest_since_entry =
            IF is_call(p) THEN Max(p.highest_since_entry, price)
            ELSE p.highest_since_entry,
         !.lowest_since_entry =
            IF is_call(p) THEN p.lowest_since_entry
            ELSE Min(low0, price)]

----------------------------------------------------------------------------
(* AdvancedAnalytics.calculate_iv_rank and                                 *)
(* ProfessionalTradeManager._calculate_iv_metrics                          *)

\* The rank is exact for the histories of the model (the range divides
\* the numerator).
calculate_iv_rank(current_iv, iv_history) ==
  IF iv_history.n < 20 THEN 50
  ELSE IF iv_history.high = iv_history.low THEN 50
  ELSE ((current_iv - iv_history.low) * 100)
         \div (iv_history.high - iv_history.low)

calculate_iv_metrics(p, snap) ==
  IF snap.iv_history.n > 0
  THEN [p EXCEPT !.greeks.iv_rank =
          calculate_iv_rank(PyOr(p.greeks.iv, 30), snap.iv_history)]
  ELSE p

----------------------------------------------------------------------------
(* ProfessionalTradeManager._analyze_market.  The indicator values         *)
(* (determine_trend, calculate_rsi, calculate_macd, calculate_atr,         *)
(* calculate_support_resistance) are functions of the bars; the history    *)
(* summary carries their results.                                          *)

analyze_market(p, snap) ==
  LET h == snap.history IN
  IF h.bars = 0 THEN p
  ELSE [p EXCEPT !.market =
          [trend_daily |-> h.trend,
           regime |-> p.market.regime,
           rsi |-> h.rsi,
           macd_signal |-> IF h.macd_hist > 0 THEN "BULLISH"
                           ELSE IF h.macd_hist < 0 THEN "BEARISH"
                           ELSE "NEUTRAL",
           atr |-> h.atr,
           support_1 |-> h.support_1,
           trend_alignment |->
             IF h.trend \in {"STRONG_UP", "MODERATE_UP"} THEN is_call(p)
             ELSE IF h.trend \in {"STRONG_DOWN", "MODERATE_DOWN"}
                  THEN ~is_call(p)
             ELSE FALSE]]

\* MarketContext.momentum_score (-100 .. 100).  rsi is even in the model,
\* so (rsi - 50) * 1.5 is an integer.
momentum_score(m) ==
  LET r == IF m.rsi > 70 THEN 30
           ELSE IF m.rsi > 50 THEN ((m.rsi - 50) * 3) \div 2
           ELSE IF m.rsi < 30 THEN 0 - 30
           ELSE 0 - (((50 - m.rsi) * 3) \div 2)
      c == IF m.macd_signal = "BULLISH" THEN 20
           ELSE IF m.macd_signal = "BEARISH" THEN 0 - 20
           ELSE 0
      t == CASE m.trend_daily = "STRONG_UP" -> 30
             [] m.trend_daily = "MODERATE_UP" -> 20
             [] m.trend_daily = "WEAK_UP" -> 10
             [] m.trend_daily = "WEAK_DOWN" -> 0 - 10
             [] m.trend_daily = "MODERATE_DOWN" -> 0 - 20
             [] m.trend_daily = "STRONG_DOWN" -> 0 - 30
             [] OTHER -> 0
  IN  Max(0 - 100, Min(100, r + c + t))

----------------------------------------------------------------------------
(* AdvancedAnalytics.calculate_theta_decay                                 *)

calculate_theta_decay(dte, option_price, theta) ==
  [daily_decay |-> Abs(theta),
   decay_rate_pct |-> IF option_price > 0
                      THEN Rat(Abs(theta) * 100, option_price)
                      ELSE Rat(0, 1),
   acceleration_phase |-> IF dte > 45 THEN "SLOW"
                          ELSE IF dte > 21 THEN "NORMAL"
                          ELSE IF dte > 7 THEN "ACCELERATING"
                          ELSE "CRITICAL"]

----------------------------------------------------------------------------
(* AdvancedAnalytics.calculate_gamma_risk.  gamma is in 1/10000 per cent   *)
(* of underlying move; pct_from_strike = |S - K| / K * 100.                *)

\* Variant of calculate_gamma_risk whose near-expiry window is DTE < 3.
calculate_gamma_risk_late(delta, gamma, stock_price, strike, dte, option_price) ==
  LET pct_from_strike == Rat(Abs(stock_price - strike) * 100, strike)
      near_strike == RatLT(pct_from_strike, 3)
      near_expiry == dte < 3
      a == IF RatLT(pct_from_strike, 1) THEN 40
           ELSE IF RatLT(pct_from_strike, 3) THEN 25
           ELSE IF RatLT(pct_from_strike, 5) THEN 15
           ELSE 0
      b == IF dte < 3 THEN 40
           ELSE IF dte < 7 THEN 30
           ELSE IF dte < 14 THEN 15
           ELSE 0
      gamma_pct == IF option_price > 0
                   THEN Rat(gamma * stock_price * 100, option_price * 10000)
                   ELSE Rat(0, 1)
      c == IF RatGT(gamma_pct, 10) THEN 20
           ELSE IF RatGT(gamma_pct, 5) THEN 10
           ELSE 0
  IN  [gamma_risk_score |-> Min(100, a + b + c),
       is_near_strike |-> near_strike,
       is_near_expiry |-> near_expiry,
       gamma_explosion_risk |-> near_strike /\ near_expiry]

calculate_gamma_risk(delta, gamma, stock_price, strike, dte, option_price) ==
  LET pct_from_strike == Rat(Abs(stock_price - strike) * 100, strike)
      near_strike == RatLT(pct_from_strike, 3)
      near_expiry == dte < 7
      a == IF RatLT(pct_from_strike, 1) THEN 40
           ELSE IF RatLT(pct_from_strike, 3) THEN 25
           ELSE IF RatLT(pct_from_strike, 5) THEN 15
           ELSE 0
      b == IF dte < 3 THEN 40
           ELSE IF dte < 7 THEN 30
           ELSE IF dte < 14 THEN 15
           ELSE 0
      gamma_pct == IF option_price > 0
                   THEN Rat(gamma * stock_price * 100, option_price * 10000)
                   ELSE Rat(0, 1)
      c == IF RatGT(gamma_pct, 10) THEN 20
           ELSE IF RatGT(gamma_pct, 5) THEN 10
           ELSE 0
  IN  [gamma_risk_score |-> Min(100, a + b + c),
       is_near_strike |-> near_strike,
       is_near_expiry |-> near_expiry,
       gamma_explosion_risk |-> near_strike /\ near_expiry]

----------------------------------------------------------------------------
(* AdvancedAnalytics.calculate_expected_move.  The normal CDF is not       *)
(* computable in integer arithmetic: the model keeps the side of 50% on    *)
(* which the probability of reaching the target falls (the sign of         *)
(* z_target) and quantises the value to 30, 50 or 70 percent: a call gets  *)
(* 1 - cdf(z_target), a put cdf(-z_target), so both fall above 50% when    *)
(* the target lies below the stock price.  With                            *)
(* iv <= 0 or dte <= 0 the source returns the default record.              *)

calculate_expected_move(stock_price, iv, dte, strike, call, stop_price, target_price) ==
  IF iv <= 0 \/ dte <= 0 \/ stock_price <= 0
  THEN ExpectedMove
  ELSE [prob_above_target |->
          IF target_price = stock_price THEN 50
          ELSE IF call
               THEN (IF target_price < stock_price THEN 70 ELSE 30)
               ELSE (IF target_price < stock_price THEN 70 ELSE 30)]

----------------------------------------------------------------------------
(* ProfessionalTradeManager._calculate_stops                               *)

\* atr = pos.market.atr or (pos.current_stock_price * 0.015)
atr_or_default(p) == PyOr(p.market.atr, (p.current_stock_price * 15) \div 1000)

\* The rule that selects the new candidate stop and names the method.
select_stop(p, st) ==
  IF p.scaling.runner_active
  THEN [new_stop |-> st.runner_trail, method |-> "RUNNER_TRAIL"]
  ELSE IF pnl_percent(p) >= p.atr_trail_trigger_pct
  THEN [new_stop |-> st.atr_trail, method |-> "ATR_TRAIL"]
  ELSE IF pnl_percent(p) >= p.breakeven_trigger_pct
  THEN [new_stop |-> st.breakeven, method |-> "BREAKEVEN"]
  ELSE [new_stop |-> p.stop_price, method |-> "ORIGINAL"]

\* Variant of ratchet: the new candidate replaces the recommended stop.
ratchet_forgets(call, recommended, new_stop) == new_stop

\* Variant of ratchet: the stop is placed a dollar beyond the candidate and
\* the previous recommendation.
ratchet_padded(call, recommended, new_stop) ==
  IF call THEN Max(recommended, new_stop) + 100
  ELSE Min(recommended, new_stop) - 100

\* Ratchet logic: the recommended stop after the cycle.
ratchet(call, recommended, new_stop) ==
  IF call THEN Max(PyOr(recommended, 0), new_stop)
  ELSE IF recommended = 0 THEN new_stop
  ELSE Min(recommended, new_stop)

\* The option-level stop prices, distance_to_stop and risk_at_stop that the
\* source derives next are display values read by no later stage; the
\* model leaves them out.
calculate_stops(p) ==
  LET atr == atr_or_default(p)
      st == [p.stops EXCEPT
               !.breakeven = IF is_call(p)
                             THEN p.entry_stock_price + (atr \div 4)
                             ELSE p.entry_stock_price - (atr \div 4),
               !.atr_trail = IF is_call(p)
                             THEN p.highest_since_entry - atr * p.atr_trail_mult
                             ELSE p.lowest_since_entry + atr * p.atr_trail_mult,
               !.support_based = IF is_call(p) /\ p.market.support_1 > 0
                                 THEN p.market.support_1 - (atr \div 4)
                                 ELSE p.stops.support_based,
               !.runner_trail = IF is_call(p)
                                THEN p.highest_since_entry
                                       - atr * p.runner_trail_mult
                                ELSE p.lowest_since_entry
                                       + atr * p.runner_trail_mult]
      sel == select_stop(p, st)
      rec == ratchet(is_call(p), p.stops.recommended, sel.new_stop)
  IN  [p EXCEPT !.stops =
         [st EXCEPT !.method = sel.method,
                    !.recommended = rec,
                    !.needs_update = Abs(rec - p.stop_price) > 1]]

----------------------------------------------------------------------------
(* ProfessionalTradeManager._check_scaling.  today is the date of the      *)
(* cycle, kept as the days left to expiration on that date.                *)

\* Variant of check_t1: the trigger is not guarded by t1_triggered and fires
\* again in every cycle at or above the threshold.
check_t1_refires(p, sc, today) ==
  IF pnl_percent(p) >= sc.t1_target_pct
  THEN [sc EXCEPT !.t1_triggered = TRUE,
                  !.t1_price = p.current_option_price,
                  !.t1_date = today]
  ELSE sc

\* Variant of check_t1 that activates the runner when T1 fires.
check_t1_starts_runner(p, sc, today) ==
  IF ~sc.t1_triggered /\ pnl_percent(p) >= sc.t1_target_pct
  THEN [sc EXCEPT !.t1_triggered = TRUE,
                  !.t1_price = p.current_option_price,
                  !.t1_date = today,
                  !.runner_active = TRUE]
  ELSE sc

\* Variant of check_t1 written as the alternative of T2: it is skipped in
\* a cycle whose P&L has reached the T2 threshold.
check_t1_below_t2(p, sc, today) ==
  IF ~sc.t1_triggered /\ pnl_percent(p) >= sc.t1_target_pct
     /\ pnl_percent(p) < sc.t2_target_pct
  THEN [sc EXCEPT !.t1_triggered = TRUE,
                  !.t1_price = p.current_option_price,
                  !.t1_date = today]
  ELSE sc

\* T1: one-shot trigger with the price and date it fired at.
check_t1(p, sc, today) ==
  IF ~sc.t1_triggered /\ pnl_percent(p) >= sc.t1_target_pct
  THEN [sc EXCEPT !.t1_triggered = TRUE,
                  !.t1_price = p.current_option_price,
                  !.t1_date = today]
  ELSE sc

\* T2: one-shot trigger; activates the runner and sets its target.
check_t2(p, sc, today) ==
  IF ~sc.t2_triggered /\ pnl_percent(p) >= sc.t2_target_pct
  THEN [sc EXCEPT !.t2_triggered = TRUE,
                  !.t2_price = p.current_option_price,
                  !.t2_date = today,
                  !.runner_active = TRUE,
                  !.extended_target =
                     IF is_call(p)
                     THEN p.target_price + ((atr_or_default(p) * 3) \div 4)
                     ELSE p.target_price - ((atr_or_default(p) * 3) \div 4)]
  ELSE sc

\* Variant of check_runner whose DTE exit closes the runner without naming
\* a reason.
check_runner_unnamed(p, sc) ==
  IF sc.runner_active /\ ~sc.runner_closed /\ p.current_dte <= p.runner_min_dte
  THEN [sc EXCEPT !.runner_closed = TRUE]
  ELSE sc

\* Variant of check_runner whose DTE exit is evaluated in every cycle of an
\* active runner, closed or not.
check_runner_reevaluates(p, sc) ==
  IF sc.runner_active /\ p.current_dte <= p.runner_min_dte
  THEN [sc EXCEPT !.runner_closed = TRUE,
                  !.runner_exit_reason = "DTE_CRITICAL"]
  ELSE IF sc.runner_active /\ ~sc.runner_closed
  THEN LET target == IF is_call(p)
                     THEN p.current_stock_price >= sc.extended_target
                     ELSE p.current_stock_price <= sc.extended_target
           trail == IF is_call(p)
                    THEN p.current_stock_price <= p.stops.runner_trail
                    ELSE p.current_stock_price >= p.stops.runner_trail
       IN  IF target
           THEN [sc EXCEPT !.runner_closed = TRUE,
                           !.runner_exit_reason = "EXTENDED_TARGET"]
           ELSE IF trail
           THEN [sc EXCEPT !.runner_closed = TRUE,
                           !.runner_exit_reason = "TRAIL_STOP"]
           ELSE sc
  ELSE sc

\* Runner exit checks.
check_runner(p, sc) ==
  IF sc.runner_active /\ ~sc.runner_closed
  THEN LET a == IF is_call(p)
                THEN IF p.current_stock_price >= sc.extended_target
                     THEN [sc EXCEPT !.runner_closed = TRUE,
                              !.runner_exit_reason = "EXTENDED_TARGET",
                              !.runner_exit_price = p.current_option_price]
                     ELSE IF p.current_stock_price <= p.stops.runner_trail
                     THEN [sc EXCEPT !.runner_closed = TRUE,
                              !.runner_exit_reason = "TRAIL_STOP",
                              !.runner_exit_price = p.current_option_price]
                     ELSE sc
                ELSE IF p.current_stock_price <= sc.extended_target
                     THEN [sc EXCEPT !.runner_closed = TRUE,
                              !.runner_exit_reason = "EXTENDED_TARGET"]
                     ELSE IF p.current_stock_price >= p.stops.runner_trail
                     THEN [sc EXCEPT !.runner_closed = TRUE,
                              !.runner_exit_reason = "TRAIL_STOP"]
                     ELSE sc
       IN  IF p.current_dte <= p.runner_min_dte
           THEN [a EXCEPT !.runner_closed = TRUE,
                          !.runner_exit_reason = "DTE_CRITICAL"]
           ELSE a
  ELSE sc

check_scaling(p, today) ==
  [p EXCEPT !.scaling =
     check_runner(p, check_t2(p, check_t1(p, p.scaling, today), today))]

----------------------------------------------------------------------------
(* AdvancedAnalytics.calculate_roll_recommendation and                     *)
(* RollAnalysis.roll_action                                                *)

\* Variant of roll_urgency_score: the third DTE tier (DTE <= 21 with
\* limited profit) weighs 25 like the second.
roll_urgency_score_eager(p) ==
  LET dte == p.current_dte
      pnl == pnl_percent(p)
      a == IF dte <= 7 THEN 40
           ELSE IF dte <= 14 THEN 25
           ELSE IF dte <= 21 /\ pnl < 30 THEN 25
           ELSE 0
      b == IF RatGT(p.theta_analysis.decay_rate_pct, 3) /\ pnl < 20
           THEN 20 ELSE 0
      c == IF p.greeks.iv_rank < 20 /\ pnl > 0 THEN 10 ELSE 0
  IN  a + b + c

roll_urgency_score(p) ==
  LET dte == p.current_dte
      pnl == pnl_percent(p)
      a == IF dte <= 7 THEN 40
           ELSE IF dte <= 14 THEN 25
           ELSE IF dte <= 21 /\ pnl < 30 THEN 15
           ELSE 0
      b == IF RatGT(p.theta_analysis.decay_rate_pct, 3) /\ pnl < 20
           THEN 20 ELSE 0
      c == IF p.greeks.iv_rank < 20 /\ pnl > 0 THEN 10 ELSE 0
  IN  a + b + c

\* Variant of calculate_roll_recommendation that recommends the roll only
\* from an urgency score of 60.
calculate_roll_recommendation_shy(p) ==
  LET u == roll_urgency_score(p) IN
  IF u > 0
  THEN [should_roll |-> u >= 60,
        roll_urgency |-> IF u >= 50 THEN "URGENT"
                         ELSE IF u >= 30 THEN "RECOMMENDED"
                         ELSE "CONSIDER",
        roll_type |->
          IF pnl_percent(p) > 50
          THEN (IF is_call(p) /\ p.current_stock_price > p.strike
                THEN "UP_AND_OUT"
                ELSE IF ~is_call(p) /\ p.current_stock_price < p.strike
                THEN "DOWN_AND_OUT"
                ELSE "OUT")
          ELSE "OUT",
        urgency_score |-> u]
  ELSE RollAnalysis

calculate_roll_recommendation(p) ==
  LET u == roll_urgency_score(p) IN
  IF u > 0
  THEN [should_roll |-> u >= 30,
        roll_urgency |-> IF u >= 50 THEN "URGENT"
                         ELSE IF u >= 30 THEN "RECOMMENDED"
                         ELSE "CONSIDER",
        roll_type |->
          IF pnl_percent(p) > 50
          THEN (IF is_call(p) /\ p.current_stock_price > p.strike
                THEN "UP_AND_OUT"
                ELSE IF ~is_call(p) /\ p.current_stock_price < p.strike
                THEN "DOWN_AND_OUT"
                ELSE "OUT")
          ELSE "OUT",
        urgency_score |-> u]
  ELSE RollAnalysis

roll_action(r) ==
  IF ~r.should_roll THEN "HOLD"
  ELSE IF r.roll_type \in {"UP", "UP_AND_OUT"} THEN "ROLL_UP"
  ELSE IF r.roll_type \in {"DOWN", "DOWN_AND_OUT"} THEN "ROLL_DOWN"
  ELSE "ROLL_OUT"

----------------------------------------------------------------------------
(* AdvancedAnalytics.calculate_position_score.  The seven sub-scores are   *)
(* kept in hundredths of a point and the weights in hundredths, so         *)
(* overall_score is in 1/10000 of a point (75 points is 750000).           *)

\* Variant: the loss branch without its floor at 0.
pnl_score_unclamped(pnl) ==
  IF pnl >= 100 THEN 10000
  ELSE IF pnl >= 50 THEN 8000 + (pnl - 50) * 40
  ELSE IF pnl >= 20 THEN 6000 + (pnl - 20) * 67
  ELSE IF pnl >= 0 THEN 5000 + pnl * 50
  ELSE IF pnl >= 0 - 20 THEN 3000 + (pnl + 20) * 100
  ELSE IF pnl >= 0 - 50 THEN 1000 + (pnl + 50) * 67
  ELSE 1000 + pnl * 20

pnl_score(pnl) ==
  IF pnl >= 100 THEN 10000
  ELSE IF pnl >= 50 THEN 8000 + (pnl - 50) * 40
  ELSE IF pnl >= 20 THEN 6000 + (pnl - 20) * 67
  ELSE IF pnl >= 0 THEN 5000 + pnl * 50
  ELSE IF pnl >= 0 - 20 THEN 3000 + (pnl + 20) * 100
  ELSE IF pnl >= 0 - 50 THEN 1000 + (pnl + 50) * 67
  ELSE Max(0, 1000 + pnl * 20)

theta_score(dte) ==
  IF dte > 45 THEN 9000
  ELSE IF dte > 21 THEN 7000 + (dte - 21) * 83
  ELSE IF dte > 14 THEN 5000 + (dte - 14) * 286
  ELSE IF dte > 7 THEN 2500 + (dte - 7) * 357
  ELSE Max(0, dte * 357)

iv_score(g) ==
  LET s == IF g.iv_rank <= 20 THEN 9000
           ELSE IF g.iv_rank <= 40 THEN 7500
           ELSE IF g.iv_rank <= 60 THEN 6000
           ELSE IF g.iv_rank <= 80 THEN 4000
           ELSE 2500
  IN  IF iv_change(g) < 0 - 5 THEN Max(0, s - 2000) ELSE s

calculate_position_score(p) ==
  LET ps == pnl_score(pnl_percent(p))
      ts == theta_score(p.current_dte)
      gs == (100 - p.gamma_analysis.gamma_risk_score) * 100
      ivs == iv_score(p.greeks)
      ls == p.liquidity.liquidity_score * 100
      m == momentum_score(p.market)
      ms == Max(0, Min(10000, IF is_call(p) THEN 5000 + m * 50
                                            ELSE 5000 - m * 50))
      prs == Min(10000, p.expected_move.prob_above_target * 150)
  IN  [pnl_score |-> ps, theta_score |-> ts, gamma_score |-> gs,
       iv_score |-> ivs, liquidity_score |-> ls, momentum_score |-> ms,
       probability_score |-> prs,
       overall_score |-> ps * 20 + ts * 20 + gs * 10 + ivs * 15 + ls * 10
                           + ms * 15 + prs * 10]

----------------------------------------------------------------------------
(* ProfessionalTradeManager._determine_status                              *)

stop_hit(p) ==
  \/ is_call(p) /\ p.current_stock_price <= p.stops.recommended
  \/ ~is_call(p) /\ p.current_stock_price >= p.stops.recommended

target_hit(p) ==
  \/ is_call(p) /\ p.current_stock_price >= p.target_price
  \/ ~is_call(p) /\ p.current_stock_price <= p.target_price

\* "No rule matched yet" in the priority chain.
Undecided == [status |-> "", action |-> ""]

\* Variant of exit_rules that checks the time exit before the stop.
exit_rules_time_first(p) ==
  LET pnl == pnl_percent(p) IN
  IF p.current_dte <= 7 /\ pnl < 30
  THEN [status |-> "EXIT_TIME", action |-> "EXIT_NOW"]
  ELSE IF stop_hit(p) \/ pnl <= 0 - 50
  THEN [status |-> "EXIT_STOP", action |-> "EXIT_NOW"]
  ELSE Undecided

\* Variant of exit_rules whose time exit applies to losing positions only.
exit_rules_losing_only(p) ==
  LET pnl == pnl_percent(p) IN
  IF stop_hit(p) \/ pnl <= 0 - 50
  THEN [status |-> "EXIT_STOP", action |-> "EXIT_NOW"]
  ELSE IF p.current_dte <= 7 /\ pnl < 0
  THEN [status |-> "EXIT_TIME", action |-> "EXIT_NOW"]
  ELSE Undecided

\* Variant of exit_rules without the time exit.
exit_rules_stop_only(p) ==
  IF stop_hit(p) \/ pnl_percent(p) <= 0 - 50
  THEN [status |-> "EXIT_STOP", action |-> "EXIT_NOW"]
  ELSE Undecided

\* The two exit rules that head the priority chain.
exit_rules(p) ==
  LET pnl == pnl_percent(p) IN
  IF stop_hit(p) \/ pnl <= 0 - 50
  THEN [status |-> "EXIT_STOP", action |-> "EXIT_NOW"]
  ELSE IF p.current_dte <= 7 /\ pnl < 30
  THEN [status |-> "EXIT_TIME", action |-> "EXIT_NOW"]
  ELSE Undecided

\* Variant of holding_tiers without the HOLDING_GOOD tier: from 60 points
\* the position keeps the status and action it had.
holding_tiers_gap(p) ==
  LET score == p.score.overall_score IN
  IF score >= 750000 /\ p.market.trend_alignment
  THEN [status |-> "HOLDING_STRONG", action |-> "HOLD"]
  ELSE IF score >= 600000
  THEN [status |-> p.status, action |-> p.action]
  ELSE IF score >= 450000
  THEN [status |-> "HOLDING_NEUTRAL",
        action |-> IF pnl_percent(p) > 20 THEN "TIGHTEN_STOP" ELSE "HOLD"]
  ELSE [status |-> "HOLDING_WEAK", action |-> "TIGHTEN_STOP"]

\* Variant of holding_tiers with hysteresis: a position left in
\* HOLDING_STRONG by the previous cycle stays there from 60 points.
holding_tiers_sticky(p) ==
  LET score == p.score.overall_score IN
  IF score >= 750000 /\ p.market.trend_alignment
  THEN [status |-> "HOLDING_STRONG", action |-> "HOLD"]
  ELSE IF score >= 600000
  THEN [status |-> IF p.status = "HOLDING_STRONG" THEN "HOLDING_STRONG"
                   ELSE "HOLDING_GOOD",
        action |-> "HOLD"]
  ELSE IF score >= 450000
  THEN [status |-> "HOLDING_NEUTRAL",
        action |-> IF pnl_percent(p) > 20 THEN "TIGHTEN_STOP" ELSE "HOLD"]
  ELSE [status |-> "HOLDING_WEAK", action |-> "TIGHTEN_STOP"]

\* The score-banded holding tiers that close the chain.
holding_tiers(p) ==
  LET score == p.score.overall_score IN
  IF score >= 750000 /\ p.market.trend_alignment
  THEN [status |-> "HOLDING_STRONG", action |-> "HOLD"]
  ELSE IF score >= 600000
  THEN [status |-> "HOLDING_GOOD", action |-> "HOLD"]
  ELSE IF score >= 450000
  THEN [status |-> "HOLDING_NEUTRAL",
        action |-> IF pnl_percent(p) > 20 THEN "TIGHTEN_STOP" ELSE "HOLD"]
  ELSE [status |-> "HOLDING_WEAK", action |-> "TIGHTEN_STOP"]

\* The priority chain: the first matching condition decides.
determine_status(p) ==
  LET pnl == pnl_percent(p)
      dte == p.current_dte
  IN
  IF exit_rules(p) # Undecided
  THEN exit_rules(p)
  ELSE IF p.scaling.runner_closed
  THEN [status |-> "EXIT_TARGET", action |-> "CLOSE_RUNNER"]
  ELSE IF p.roll_analysis.roll_urgency = "URGENT"
  THEN [status |-> "CONSIDER_ROLL", action |-> roll_action(p.roll_analysis)]
  ELSE IF p.gamma_analysis.gamma_explosion_risk
  THEN [status |-> "WARNING_GAMMA",
        action |-> IF pnl > 0 THEN "TIGHTEN_STOP" ELSE "EXIT_NOW"]
  ELSE IF iv_change(p.greeks) < 0 - 10 /\ pnl < 10
  THEN [status |-> "WARNING_IV_CRUSH", action |-> "TIGHTEN_STOP"]
  ELSE IF target_hit(p) \/ pnl >= p.scaling.t2_target_pct
  THEN (IF p.scaling.runner_active
        THEN [status |-> "RUNNER_ACTIVE", action |-> "HOLD"]
        ELSE [status |-> "TAKE_FULL", action |-> "TAKE_FULL"])
  ELSE IF pnl >= p.scaling.t1_target_pct
  THEN [status |-> "TAKE_PARTIAL", action |-> "TAKE_PARTIAL"]
  ELSE IF dte <= 14 /\ p.theta_analysis.acceleration_phase = "ACCELERATING"
  THEN [status |-> "WARNING_THETA",
        action |-> IF pnl > 0 THEN "ROLL_OUT" ELSE "EXIT_NOW"]
  ELSE IF p.liquidity.liquidity_score < 30
  THEN [status |-> "WARNING_LIQUIDITY", action |-> "REDUCE_SIZE"]
  ELSE holding_tiers(p)

----------------------------------------------------------------------------
(* ProfessionalTradeManager.update_position: the thirteen stages in the    *)
(* order of the source.  Scenario projection (stage 7) and the alert       *)
(* strings (stage 13) are outputs no other stage reads.                    *)

\* Stages 4 to 6: theta decay, gamma risk and expected move.
theta_stage(p) ==
  [p EXCEPT !.theta_analysis =
     calculate_theta_decay(p.current_dte, p.current_option_price,
                           p.greeks.theta)]

gamma_stage(p) ==
  [p EXCEPT !.gamma_analysis =
     calculate_gamma_risk(p.greeks.delta, p.greeks.gamma,
                          p.current_stock_price, p.strike, p.current_dte,
                          p.current_option_price)]

expected_move_stage(p) ==
  [p EXCEPT !.expected_move =
     calculate_expected_move(p.current_stock_price, p.greeks.iv, p.current_dte,
                             p.strike, is_call(p), p.stop_price,
                             p.target_price)]

\* Stages 10 to 12: roll recommendation, score, status and action.
roll_stage(p) ==
  [p EXCEPT !.roll_analysis = calculate_roll_recommendation(p)]

score_stage(p) == [p EXCEPT !.score = calculate_position_score(p)]

status_stage(p) ==
  [p EXCEPT !.status = determine_status(p).status,
            !.action = determine_status(p).action]

\* Stages 1 to 6 (market data and the analyses of it).
analytics_stages(p, snap) ==
  expected_move_stage(gamma_stage(theta_stage(
    analyze_market(calculate_iv_metrics(fetch_live_data(p, snap), snap),
                   snap))))

update_position(p, snap) ==
  status_stage(score_stage(roll_stage(
    check_scaling(calculate_stops(analytics_stages(p, snap)), snap.days))))

----------------------------------------------------------------------------
(* The inputs of the model.                                                *)

Ids == {"p1"}

StockPrices == {76000, 80000, 84000, 88000}
Marks == {50, 100, 125, 160, MaxMark}
Days == {6, 14, MaxDTE}

\* A liquid quote: no spread, deep open interest, implied volatility as at
\* entry, slow decay.
QuoteGood(m) == OptionQuote(m, m, m, 100, 1000, 50, 2, 0 - 1, 10, 40)
\* A thin quote after a volatility crush: 20% spread, little open interest,
\* fast decay.
QuoteThin(m) ==
  OptionQuote(m - (m \div 10), m + (m \div 10), m, 0, 10, 40, 3, 0 - 5, 8, 24)

HistoryUp ==
  [bars |-> 100, trend |-> "STRONG_UP", rsi |-> 74, macd_hist |-> 1,
   atr |-> 1600, support_1 |-> 76000]
HistoryDown ==
  [bars |-> 100, trend |-> "STRONG_DOWN", rsi |-> 26, macd_hist |-> 0 - 1,
   atr |-> 1600, support_1 |-> 76000]
IvHistoryMid == [n |-> 80, low |-> 30, high |-> 80]
IvHistoryHigh == [n |-> 80, low |-> 22, high |-> 42]

Snap(stock, option, history, iv_history, days) ==
  [stock |-> stock, option |-> option, history |-> history,
   iv_history |-> iv_history, days |-> days]

\* Every request of the cycle fails.
GatewayDown(days) ==
  Snap(StockFail, OptionFail, HistoryFail, IvHistoryFail, days)

Snapshots ==
  {GatewayDown(d) : d \in Days}
  \cup {Snap([price |-> s], QuoteGood(m), HistoryUp, IvHistoryMid, d) :
          s \in StockPrices, m \in Marks, d \in Days}
  \cup {Snap([price |-> s], QuoteThin(m), HistoryDown, IvHistoryHigh, d) :
          s \in {80000, 84000}, m \in {100, 130, 160}, d \in Days}

\* The positions callers open: a call with its stop below and its target
\* above the entry, a put with the stop above and the target below, and a
\* put opened without a planned stop (stop_price 0).
NewPositions ==
  {Position(id, "LONG_CALL", 80000, 80000, 100, 76000, 84000, 40, 50) :
     id \in Ids}
  \cup {Position(id, "LONG_PUT", 84000, 84000, 100, sp, 80000, 40, 0 - 50) :
          id \in Ids, sp \in {88000, 0}}

----------------------------------------------------------------------------
(* Persistence: save_positions, load_positions and Position.__post_init__. *)
(* A member of an Enum class is written by its name (STRONG_UP); the str   *)
(* that is its .value, and that json stores, is written in quotes          *)
(* ('STRONG_UP'): the two are different Python values, a plain Enum member *)
(* does not compare or hash equal to its value.  Numbers are written by    *)
(* json.dumps with repr and read back to the same float.                   *)

PositionType == {"LONG_CALL", "LONG_PUT"}
TrendStrength ==
  {"STRONG_UP", "MODERATE_UP", "WEAK_UP", "NEUTRAL", "WEAK_DOWN",
   "MODERATE_DOWN", "STRONG_DOWN"}
MarketRegime ==
  {"LOW_VOL_BULL", "LOW_VOL_BEAR", "HIGH_VOL_BULL", "HIGH_VOL_BEAR",
   "NEUTRAL", "CRASH"}

\* member.value
value(e) == "'" \o e \o "'"

\* if isinstance(x, str): x = EnumClass(x)   (lookup of the member by value)
enum_of(members, x) ==
  IF x \in members THEN x ELSE CHOOSE e \in members : value(e) = x

\* The dict save_positions builds for one position: asdict(pos) with the
\* .value of position_type, status, action and of the enums of pos.market.
pos_dict(p) ==
  [p EXCEPT !.position_type = value(@), !.status = value(@),
            !.action = value(@), !.market.trend_daily = value(@),
            !.market.regime = value(@)]

\* .value exists on Enum members only: on a str it raises AttributeError.
has_value(members, x) == x \in members

\* save_positions: the whole store is serialised and written; an exception
\* while building the data is logged and the file is left as it was.
save_positions(ps, file) ==
  IF \A id \in DOMAIN ps :
       /\ has_value(TrendStrength, ps[id].market.trend_daily)
       /\ has_value(MarketRegime, ps[id].market.regime)
  THEN [id \in DOMAIN ps |-> pos_dict(ps[id])]
  ELSE file

\* Position(**pos_data) followed by __post_init__: position_type, status
\* and action are turned back into members; the sub-records are rebuilt
\* with the values found in the file.
post_init(d) ==
  [d EXCEPT !.position_type = enum_of(PositionType, @),
            !.status = enum_of(TradeStatus, @),
            !.action = enum_of(Action, @),
            !.highest_since_entry =
               IF @ = 0 THEN d.entry_stock_price ELSE @,
            !.lowest_since_entry =
               IF @ = 0 THEN d.entry_stock_price ELSE @]

\* load_positions of a fresh manager.
load_positions(file) == [id \in DOMAIN file |-> post_init(file[id])]

----------------------------------------------------------------------------
(* The request threads of the web server (cockpit.py runs Flask's          *)
(* development server, which serves every request in a thread of its own). *)

Threads == {"t1", "t2"}

\* A thread between two requests.
Idle ==
  [pc |-> "idle", pos_id |-> "", todo |-> <<>>, request |-> "",
   depth |-> 0, snap |-> GatewayDown(MaxDTE)]

\* The page data cache of cockpit.py (cache key 'page_data'): empty, or
\* the position summaries of the latest get_data.
NoPage == [cached |-> FALSE, positions |-> <<>>]

----------------------------------------------------------------------------
(* The state machine.                                                      *)

\* ProfessionalTradeManager.__init__ with no positions.json.
Init ==
  /\ positions = [id \in {} |-> 0]
  /\ snapshot = GatewayDown(MaxDTE)
  /\ positions_file = [id \in {} |-> 0]
  /\ threads = [t \in Threads |-> Idle]
  /\ dashboard = NoPage

\* The record add_position stores: the entry greeks and the original stop
\* are taken from the position as the caller built it.
added(pos) ==
  [pos EXCEPT !.greeks.entry_delta = pos.greeks.delta,
              !.greeks.entry_iv = pos.greeks.iv,
              !.stops.original = pos.stop_price,
              !.stops.recommended = pos.stop_price]

\* ProfessionalTradeManager.add_position.  Callers build the id from a fresh
\* uuid (cockpit.py, add_position), so a position is added under an id that
\* is not in the store.
add_position(pos) ==
  /\ pos.id \notin DOMAIN positions
  /\ positions' =
       [id \in DOMAIN positions \cup {pos.id} |->
          IF id = pos.id THEN added(pos) ELSE positions[id]]
  /\ positions_file' = save_positions(positions', positions_file)
  /\ UNCHANGED <<snapshot, threads, dashboard>>

\* ProfessionalTradeManager.remove_position
remove_position(pos_id) ==
  /\ pos_id \in DOMAIN positions
  /\ positions' = [id \in DOMAIN positions \ {pos_id} |-> positions[id]]
  /\ positions_file' = save_positions(positions', positions_file)
  /\ UNCHANGED <<snapshot, threads, dashboard>>

\* One cycle of ProfessionalTradeManager.update_position, save_positions
\* included, against the answers snap of the gateway.  The clock does not run backwards: the days
\* left to expiration never grow from one cycle to the next.
UpdatePosition(pos_id, snap) ==
  /\ pos_id \in DOMAIN positions
  /\ snap.days <= snapshot.days
  /\ positions' =
       [positions EXCEPT ![pos_id] = update_position(positions[pos_id], snap)]
  /\ snapshot' = snap
  /\ positions_file' = save_positions(positions', positions_file)
  /\ UNCHANGED <<threads, dashboard>>

Next ==
  \/ \E pos \in NewPositions : add_position(pos)
  \/ \E pos_id \in Ids : remove_position(pos_id)
  \/ \E pos_id \in Ids, snap \in Snapshots : UpdatePosition(pos_id, snap)

Spec == Init /\ [][Next]_vars

----------------------------------------------------------------------------
(* Properties.  Updated(p): at least one update_position cycle has run on  *)
(* p (the classifier never leaves the construction status BUILDING).       *)

Updated(p) == p.status # "BUILDING"

\* The positions that a step keeps: with one step per operation these are
\* the positions an update_position cycle has just run on.
Kept == DOMAIN positions \cap DOMAIN positions'

\* The stop condition and the time-exit condition of the classifier.
StopCondition(p) == stop_hit(p) \/ pnl_percent(p) <= 0 - 50
TimeCondition(p) == p.current_dte <= 7 /\ pnl_percent(p) < 30

\* C1: for a call position the recommended stop after an update cycle is
\* greater than or equal to its value after the previous cycle (and to the
\* value add_position gave it), whatever the prices and the selected rule.
C1_CallStopNeverDecreases ==
  [][\A id \in Kept :
       is_call(positions[id]) =>
         positions'[id].stops.recommended >= positions[id].stops.recommended
    ]_vars

\* C1 witness: a call whose price has fallen back below its high-water mark
\* and whose cycle selected the original stop while the recommended stop
\* stays at the higher level reached before.
C1_Witness ==
  \E id \in DOMAIN positions :
    LET p == positions[id] IN
      /\ is_call(p) /\ Updated(p)
      /\ p.current_stock_price < p.highest_since_entry
      /\ p.stops.method = "ORIGINAL"
      /\ p.stops.recommended > p.stop_price

\* C2: for a put position the recommended stop after an update cycle is
\* less than or equal to its value after the previous cycle, for every
\* planned stop_price.
C2_PutStopNeverIncreases ==
  [][\A id \in Kept :
       ~is_call(positions[id]) =>
         positions'[id].stops.recommended <= positions[id].stops.recommended
    ]_vars

\* C3: once T1 (T2) has triggered it stays triggered in every later cycle
\* and its recorded trigger price and date are not overwritten.
C3_TriggersOneShot ==
  [][\A id \in Kept :
       LET a == positions[id].scaling
           b == positions'[id].scaling
       IN  /\ a.t1_triggered =>
                /\ b.t1_triggered
                /\ b.t1_price = a.t1_price
                /\ b.t1_date = a.t1_date
           /\ a.t2_triggered =>
                /\ b.t2_triggered
                /\ b.t2_price = a.t2_price
                /\ b.t2_date = a.t2_date
    ]_vars

\* C3 witness: T1 and T2 fired in earlier cycles at another price and on
\* another date, and the P&L has since pulled back below the T1 threshold.
C3_Witness ==
  \E id \in DOMAIN positions :
    LET p == positions[id] IN
      /\ p.scaling.t1_triggered /\ p.scaling.t2_triggered
      /\ pnl_percent(p) < p.scaling.t1_target_pct
      /\ p.scaling.t1_price # p.current_option_price
      /\ p.scaling.t1_date # p.current_dte
      /\ p.scaling.t2_date # p.current_dte

----------------------------------------------------------------------------
(* The status classifier.                                                  *)

\* The fourteen states the specification lists.
FourteenStates ==
  {"EXIT_STOP", "EXIT_TIME", "EXIT_TARGET", "CONSIDER_ROLL", "WARNING_GAMMA",
   "WARNING_IV_CRUSH", "TAKE_FULL", "TAKE_PARTIAL", "WARNING_THETA",
   "WARNING_LIQUIDITY", "HOLDING_STRONG", "HOLDING_GOOD", "HOLDING_NEUTRAL",
   "HOLDING_WEAK"}

IvCrushCondition(p) == iv_change(p.greeks) < 0 - 10 /\ pnl_percent(p) < 10
TargetCondition(p) ==
  target_hit(p) \/ pnl_percent(p) >= p.scaling.t2_target_pct

\* C5: when the target/T2 condition is the first matching condition (no
\* stop, time exit, closed runner, urgent roll, gamma explosion or IV crush),
\* the status is TAKE_FULL and the action is TAKE_FULL.
C5_TargetGivesTakeFull ==
  \A id \in DOMAIN positions :
    LET p == positions[id] IN
      (/\ Updated(p)
       /\ ~StopCondition(p) /\ ~TimeCondition(p)
       /\ ~p.scaling.runner_closed
       /\ p.roll_analysis.roll_urgency # "URGENT"
       /\ ~p.gamma_analysis.gamma_explosion_risk
       /\ ~IvCrushCondition(p)
       /\ TargetCondition(p))
      => p.status = "TAKE_FULL" /\ p.action = "TAKE_FULL"

\* C6 as stated: two evaluations that end in the same status end in the
\* same action.
C6_SameStatusSameAction ==
  [][\A id \in Kept :
       positions'[id].status = positions[id].status
         => positions'[id].action = positions[id].action]_vars

\* The actions each status is paired with after an update cycle.
ActionsOf(status) ==
  CASE status \in {"EXIT_STOP", "EXIT_TIME"} -> {"EXIT_NOW"}
    [] status = "EXIT_TARGET" -> {"CLOSE_RUNNER"}
    [] status = "CONSIDER_ROLL" -> {"ROLL_OUT", "ROLL_UP", "ROLL_DOWN"}
    [] status \in {"WARNING_GAMMA", "WARNING_IV_CRUSH", "HOLDING_WEAK"}
         -> {"TIGHTEN_STOP"}
    [] status = "TAKE_FULL" -> {"TAKE_FULL"}
    [] status = "TAKE_PARTIAL" -> {"TAKE_PARTIAL"}
    [] status = "WARNING_THETA" -> {"ROLL_OUT", "EXIT_NOW"}
    [] status = "WARNING_LIQUIDITY" -> {"REDUCE_SIZE"}
    [] status = "HOLDING_NEUTRAL" -> {"HOLD", "TIGHTEN_STOP"}
    [] status \in {"RUNNER_ACTIVE", "HOLDING_STRONG", "HOLDING_GOOD"}
         -> {"HOLD"}
    [] OTHER -> {}

\* C6 amended: after an update cycle the status determines the action,
\* except for CONSIDER_ROLL (ROLL_OUT, ROLL_UP or ROLL_DOWN), WARNING_THETA
\* (ROLL_OUT or EXIT_NOW) and HOLDING_NEUTRAL (HOLD or TIGHTEN_STOP).
C6_ActionByStatus ==
  \A id \in DOMAIN positions :
    Updated(positions[id])
      => positions[id].action \in ActionsOf(positions[id].status)

\* C6 witness: a status that has more than one action, ending in the
\* action its other evaluations do not end in.
C6_Witness ==
  \E id \in DOMAIN positions :
    /\ positions[id].status = "CONSIDER_ROLL"
    /\ positions[id].action \in {"ROLL_UP", "ROLL_DOWN"}

\* C7: a second update_position against the same market snapshot leaves
\* status, action, recommended stop, stop method and scaling state as the
\* first run left them.
C7_RepeatIsIdempotent ==
  [][\A id \in Kept :
       (Updated(positions[id]) /\ snapshot' = snapshot)
         => /\ positions'[id].status = positions[id].status
            /\ positions'[id].action = positions[id].action
            /\ positions'[id].stops.recommended
                 = positions[id].stops.recommended
            /\ positions'[id].stops.method = positions[id].stops.method
            /\ positions'[id].scaling = positions[id].scaling]_vars

\* C8: whenever the stop condition holds (recommended stop breached or
\* P&L <= -50%) the status is EXIT_STOP and the action EXIT_NOW, whatever
\* the DTE, runner, roll, gamma, target and score inputs.
C8_StopFirst ==
  \A id \in DOMAIN positions :
    LET p == positions[id] IN
      (Updated(p) /\ StopCondition(p))
        => p.status = "EXIT_STOP" /\ p.action = "EXIT_NOW"

\* C8 witness: the stop is breached at DTE <= 7 with P&L < 30%, so the
\* time-exit condition holds as well, and the status is EXIT_STOP.
C8_Witness ==
  \E id \in DOMAIN positions :
    LET p == positions[id] IN
      /\ stop_hit(p) /\ pnl_percent(p) > 0 - 50
      /\ TimeCondition(p)
      /\ p.status = "EXIT_STOP"

\* Underlying within 3% of the strike.
NearStrike(p) == Abs(p.current_stock_price - p.strike) * 100 < 3 * p.strike

\* The premise of C9: near the strike with DTE < 7 and neither the stop nor
\* the time-exit condition.
GammaCondition(p) ==
  /\ Updated(p)
  /\ NearStrike(p) /\ p.current_dte < 7
  /\ ~StopCondition(p) /\ ~TimeCondition(p)

\* C9 as stated: near the strike with DTE < 7 and neither the stop nor the
\* time-exit condition, the status is WARNING_GAMMA.
C9_GammaWarning ==
  \A id \in DOMAIN positions :
    GammaCondition(positions[id]) => positions[id].status = "WARNING_GAMMA"

\* C9 amended: near the strike with DTE < 7, neither the stop nor the
\* time-exit condition, the runner not closed and the roll urgency not
\* URGENT, the status is WARNING_GAMMA.
C9_GammaWarningAfterRunnerAndRoll ==
  \A id \in DOMAIN positions :
    LET p == positions[id] IN
      (/\ GammaCondition(p)
       /\ ~p.scaling.runner_closed
       /\ p.roll_analysis.roll_urgency # "URGENT")
      => p.status = "WARNING_GAMMA"

\* C9 witness: the gamma warning is given near the strike with DTE < 7.
C9_Witness ==
  \E id \in DOMAIN positions :
    LET p == positions[id] IN
      /\ GammaCondition(p)
      /\ p.gamma_analysis.gamma_explosion_risk
      /\ p.status = "WARNING_GAMMA"

\* C10: whenever DTE <= 7 and P&L < 30% and the stop condition does not
\* hold, the status is EXIT_TIME and the action EXIT_NOW, whatever the
\* runner, roll, gamma, IV and score inputs.
C10_TimeExit ==
  \A id \in DOMAIN positions :
    LET p == positions[id] IN
      (Updated(p) /\ TimeCondition(p) /\ ~StopCondition(p))
        => p.status = "EXIT_TIME" /\ p.action = "EXIT_NOW"

\* C10 witness: a time exit with a positive P&L while a condition further
\* down the chain (closed runner, urgent roll or gamma explosion) holds too.
C10_Witness ==
  \E id \in DOMAIN positions :
    LET p == positions[id] IN
      /\ p.status = "EXIT_TIME"
      /\ pnl_percent(p) > 0
      /\ \/ p.scaling.runner_closed
         \/ p.roll_analysis.roll_urgency = "URGENT"
         \/ p.gamma_analysis.gamma_explosion_risk

----------------------------------------------------------------------------
(* The scaling state.                                                      *)

\* C11: runner_active is true only if t2_triggered is true; a position
\* whose T2 has not triggered has no active runner, no closed runner and no
\* RUNNER_TRAIL stop method.
C11_RunnerOnlyAfterT2 ==
  \A id \in DOMAIN positions :
    LET p == positions[id] IN
      /\ p.scaling.runner_active => p.scaling.t2_triggered
      /\ p.scaling.runner_closed => p.scaling.runner_active
      /\ p.stops.method = "RUNNER_TRAIL" => p.scaling.runner_active

\* C11 witness: the runner is active under its trailing stop after T2 has
\* triggered, with the P&L back below the T2 threshold.
C11_Witness ==
  \E id \in DOMAIN positions :
    LET p == positions[id] IN
      /\ p.scaling.t2_triggered /\ p.scaling.runner_active
      /\ p.stops.method = "RUNNER_TRAIL"
      /\ pnl_percent(p) < p.scaling.t2_target_pct

\* C12 as stated: whenever runner_closed is true the exit reason is
\* EXTENDED_TARGET, TRAIL_STOP or DTE_FLOOR.
C12_ReasonNamesDteFloor ==
  \A id \in DOMAIN positions :
    positions[id].scaling.runner_closed
      => positions[id].scaling.runner_exit_reason
           \in {"EXTENDED_TARGET", "TRAIL_STOP", "DTE_FLOOR"}

\* C12 amended: whenever runner_closed is true the exit reason is
\* EXTENDED_TARGET, TRAIL_STOP or DTE_CRITICAL.
C12_ReasonNamesDteCritical ==
  \A id \in DOMAIN positions :
    positions[id].scaling.runner_closed
      => positions[id].scaling.runner_exit_reason
           \in {"EXTENDED_TARGET", "TRAIL_STOP", "DTE_CRITICAL"}

\* C12 witness: a runner closed by the DTE rule in the cycle in which T2
\* triggered at DTE <= runner_min_dte.
C12_Witness ==
  \E id \in DOMAIN positions :
    /\ positions[id].scaling.runner_closed
    /\ positions[id].scaling.runner_exit_reason = "DTE_CRITICAL"
    /\ positions[id].scaling.t2_date <= runner_min_dte

----------------------------------------------------------------------------
(* Unavailable market data.                                                *)

\* The stock and the option requests of the cycle both came back empty.
FetchFailed(snap) == snap.stock = StockFail /\ snap.option = OptionFail

\* C13: when the fetch of a cycle fails, the underlying price, the option
\* price, delta, gamma, theta, vega, IV and the liquidity inputs bid, ask,
\* volume and open interest keep the values of the previous cycle.
C13_FailedFetchKeepsLiveFields ==
  [][\A id \in Kept :
       FetchFailed(snapshot') =>
         LET a == positions[id]
             b == positions'[id]
         IN  /\ b.current_stock_price = a.current_stock_price
             /\ b.current_option_price = a.current_option_price
             /\ b.greeks.delta = a.greeks.delta
             /\ b.greeks.gamma = a.greeks.gamma
             /\ b.greeks.theta = a.greeks.theta
             /\ b.greeks.vega = a.greeks.vega
             /\ b.greeks.iv = a.greeks.iv
             /\ b.liquidity.bid = a.liquidity.bid
             /\ b.liquidity.ask = a.liquidity.ask
             /\ b.liquidity.volume = a.liquidity.volume
             /\ b.liquidity.open_interest = a.liquidity.open_interest]_vars

\* C14: when every gateway call of a position's first update fails, the
\* cycle ends with action HOLD.
C14_FirstUpdateWithoutDataHolds ==
  [][\A id \in Kept :
       (snapshot' = GatewayDown(snapshot'.days) /\ ~Updated(positions[id]))
         => positions'[id].action = "HOLD"]_vars

\* C18: the classifier's result does not depend on the status and action
\* the previous cycle left in the position.
C18_ClassifierStateless ==
  \A id \in DOMAIN positions :
    \A s \in TradeStatus, a \in Action :
      determine_status([positions[id] EXCEPT !.status = s, !.action = a])
        = determine_status(positions[id])

\* C18 witness: a cycle has ended in a holding tier, and the classifier
\* gives the same result on the same sub-records when the previous cycle
\* had left EXIT_STOP / EXIT_NOW behind.
C18_Witness ==
  \E id \in DOMAIN positions :
    LET p == positions[id] IN
      /\ p.status \in {"HOLDING_STRONG", "HOLDING_GOOD", "HOLDING_NEUTRAL"}
      /\ determine_status([p EXCEPT !.status = "EXIT_STOP",
                                    !.action = "EXIT_NOW"])
           = [status |-> p.status, action |-> p.action]

----------------------------------------------------------------------------
(* The scoring function on its whole input range.  ScoreSpec starts from   *)
(* one position whose scoring inputs are drawn from ScoreInputs and        *)
(* applies calculate_position_score to it.                                 *)

MaxScoreMark == 5100
MaxScoreDTE == 60

MarketUp ==
  [MarketContext EXCEPT !.trend_daily = "STRONG_UP", !.rsi = 74,
                        !.macd_signal = "BULLISH", !.trend_alignment = TRUE]
MarketDown ==
  [MarketContext EXCEPT !.trend_daily = "STRONG_DOWN", !.rsi = 26,
                        !.macd_signal = "BEARISH"]

\* Option marks from worthless (P&L -100%) over 1 (-99%) to MaxScoreMark
\* (+5000%), days to expiration from 0 to MaxScoreDTE, and the two ends
\* and the middle of every other input of the score.
ScoreInputs ==
  {[Position("p1", ty, 80000, 80000, 100, 76000, 84000, 40, 50) EXCEPT
      !.current_stock_price = 80000,
      !.current_option_price = m,
      !.current_dte = d,
      !.gamma_analysis.gamma_risk_score = g,
      !.greeks.entry_iv = 40,
      !.greeks.iv = iv,
      !.greeks.iv_rank = r,
      !.liquidity.liquidity_score = l,
      !.market = mk,
      !.expected_move.prob_above_target = pr] :
     ty \in PositionType,
     m \in {0, 1, 40, 70, 90, 100, 110, 130, 170, 200, MaxScoreMark},
     d \in {0, 5, 10, 18, 30, 45, MaxScoreDTE},
     g \in {0, 50, 100},
     iv \in {24, 40},
     r \in {0, 50, 100},
     l \in {0, 100},
     mk \in {MarketContext, MarketUp, MarketDown},
     pr \in {0, 50, 100}}

ScoreInit ==
  /\ \E p \in ScoreInputs : positions = [id \in {p.id} |-> p]
  /\ snapshot = GatewayDown(MaxScoreDTE)
  /\ positions_file = [id \in {} |-> 0]
  /\ threads = [t \in Threads |-> Idle]
  /\ dashboard = NoPage

\* Stage 11 of update_position.
ScorePosition(pos_id) ==
  /\ pos_id \in DOMAIN positions
  /\ positions' = [positions EXCEPT ![pos_id] = score_stage(positions[pos_id])]
  /\ UNCHANGED <<snapshot, positions_file, threads, dashboard>>

ScoreNext == \E pos_id \in Ids : ScorePosition(pos_id)

ScoreSpec == ScoreInit /\ [][ScoreNext]_vars

\* The seven sub-scores of a PositionScore.
SubScores(sc) ==
  {sc.pnl_score, sc.theta_score, sc.gamma_score, sc.iv_score,
   sc.liquidity_score, sc.momentum_score, sc.probability_score}

\* C19: the overall score lies in [0, 100] and so does each of the seven
\* sub-scores, for every P&L from -100% to +5000%, every DTE >= 0 and every
\* gamma risk, IV rank, liquidity, momentum and target probability
\* (scores are in 1/100 of a point, the overall score in 1/10000).
C19_ScoresWithinBounds ==
  \A id \in DOMAIN positions :
    LET sc == positions[id].score IN
      /\ sc.overall_score >= 0 /\ sc.overall_score <= 1000000
      /\ \A x \in SubScores(sc) : x >= 0 /\ x <= 10000

\* A scored position at +5000% (the IV score of a scored position is at
\* least 5 points): its P&L score is the cap of 100.
C19_Witness ==
  \E id \in DOMAIN positions :
    LET p == positions[id] IN
      /\ p.score.iv_score > 0
      /\ pnl_percent(p) = 5000
      /\ p.score.pnl_score = 10000
      /\ p.score.overall_score > 0

----------------------------------------------------------------------------
(* Persistence across a restart of the process.  PersistSpec adds to the   *)
(* operations of the manager the construction of a fresh manager, whose    *)
(* __init__ loads positions.json.                                          *)

PersistSnapshots ==
  {GatewayDown(14),
   Snap([price |-> 80000], QuoteGood(160), HistoryUp, IvHistoryMid, 14),
   Snap([price |-> 84000], QuoteGood(125), HistoryUp, IvHistoryMid, 14),
   Snap([price |-> 80000], QuoteThin(130), HistoryDown, IvHistoryHigh, 6)}

\* ProfessionalTradeManager.__init__ of a new process: load_positions.
Restart ==
  /\ positions' = load_positions(positions_file)
  /\ threads' = [t \in Threads |-> Idle]
  /\ dashboard' = NoPage
  /\ UNCHANGED <<snapshot, positions_file>>

PersistNext ==
  \/ \E pos \in NewPositions : add_position(pos)
  \/ \E pos_id \in Ids : remove_position(pos_id)
  \/ \E pos_id \in Ids, snap \in PersistSnapshots : UpdatePosition(pos_id, snap)
  \/ Restart

PersistSpec == Init /\ [][PersistNext]_vars

\* What a fresh manager holds after save_positions of the present store.
RoundTrip == load_positions(save_positions(positions, positions_file))

\* All sub-records populated: a cycle has run and has seen a stock price.
Populated(p) == Updated(p) /\ p.current_stock_price > 0

\* C20: save_positions followed by load_positions in a fresh manager gives
\* back every populated position: every field outside the market context is
\* equal, the numeric and str fields of the market context are equal, the
\* trend and the regime have the value of the originals, and the momentum
\* score computed from the loaded market context is the one computed from
\* the original.
C20_RoundTripKeepsDerivedValues ==
  \A id \in DOMAIN positions :
    Populated(positions[id]) =>
      /\ id \in DOMAIN RoundTrip
      /\ LET p == positions[id]
             q == RoundTrip[id]
         IN  /\ [q EXCEPT !.market = p.market] = p
             /\ q.market.rsi = p.market.rsi
             /\ q.market.atr = p.market.atr
             /\ q.market.support_1 = p.market.support_1
             /\ q.market.macd_signal = p.market.macd_signal
             /\ q.market.trend_alignment = p.market.trend_alignment
             /\ q.market.trend_daily \in
                  {p.market.trend_daily, value(p.market.trend_daily)}
             /\ q.market.regime \in {p.market.regime, value(p.market.regime)}
             /\ momentum_score(q.market) = momentum_score(p.market)

----------------------------------------------------------------------------
(* Concurrent requests.  The server handles every request in its own       *)
(* thread and the manager has no lock: /refresh runs update_all, the pages *)
(* run get_data.  A thread can be suspended between any two statements;    *)
(* ConcSpec lets it be suspended between the groups of stages of           *)
(* update_position, each of which assigns to the shared Position object:   *)
(*   stages 1-6 (fetch and analytics), stages 8-9 (stops and scaling),     *)
(*   stages 10-12 (roll, score, status), save_positions.                   *)

\* Manager of a call "p1" and a put "p2", in the order they were added.
ConcPositions ==
  [id \in {"p1", "p2"} |->
     IF id = "p1"
     THEN added(Position("p1", "LONG_CALL", 80000, 80000, 100, 76000, 84000,
                         40, 50))
     ELSE added(Position("p2", "LONG_PUT", 84000, 84000, 100, 88000, 80000,
                         40, 0 - 50))]
PositionOrder == <<"p1", "p2">>

ConcSnapshots ==
  {Snap([price |-> 80000], QuoteGood(125), HistoryUp, IvHistoryMid, 14),
   Snap([price |-> 84000], QuoteGood(MaxMark), HistoryUp, IvHistoryMid, 14)}

ConcInit ==
  /\ positions = ConcPositions
  /\ snapshot = GatewayDown(14)
  /\ positions_file = save_positions(ConcPositions, [id \in {} |-> 0])
  /\ threads = [t \in Threads |-> Idle]
  /\ dashboard = NoPage

\* /refresh: the page cache is cleared and update_all starts to iterate
\* over the positions.
refresh(t) ==
  /\ threads[t].pc = "idle"
  /\ threads' = [threads EXCEPT ![t].pc = "update_all",
                                ![t].todo = PositionOrder]
  /\ dashboard' = NoPage
  /\ UNCHANGED <<positions, snapshot, positions_file>>

\* update_all takes the next position; update_position stages 1 to 6.
fetch_and_analyse(t, snap) ==
  /\ threads[t].pc = "update_all"
  /\ threads[t].todo # <<>>
  /\ snap.days <= snapshot.days
  /\ LET pos_id == Head(threads[t].todo) IN
       /\ positions' = [positions EXCEPT
                          ![pos_id] = analytics_stages(positions[pos_id], snap)]
       /\ threads' = [threads EXCEPT ![t].pc = "stops",
                                     ![t].pos_id = pos_id,
                                     ![t].todo = Tail(threads[t].todo),
                                     ![t].snap = snap]
  /\ snapshot' = snap
  /\ UNCHANGED <<positions_file, dashboard>>

\* update_position stages 8 and 9.
stops_and_scaling(t) ==
  /\ threads[t].pc = "stops"
  /\ positions' =
       [positions EXCEPT ![threads[t].pos_id] =
          check_scaling(calculate_stops(positions[threads[t].pos_id]),
                        threads[t].snap.days)]
  /\ threads' = [threads EXCEPT ![t].pc = "classify"]
  /\ UNCHANGED <<snapshot, positions_file, dashboard>>

\* update_position stages 10 to 12.
classify(t) ==
  /\ threads[t].pc = "classify"
  /\ positions' =
       [positions EXCEPT ![threads[t].pos_id] =
          status_stage(score_stage(roll_stage(positions[threads[t].pos_id])))]
  /\ threads' = [threads EXCEPT ![t].pc = "save"]
  /\ UNCHANGED <<snapshot, positions_file, dashboard>>

\* The save_positions that ends update_position: every position of the
\* manager is written as it is at this moment.
save(t) ==
  /\ threads[t].pc = "save"
  /\ positions_file' = save_positions(positions, positions_file)
  /\ threads' = [threads EXCEPT ![t].pc = "update_all", ![t].pos_id = ""]
  /\ UNCHANGED <<positions, snapshot, dashboard>>

\* update_all has gone through all positions; the request ends.
update_all_done(t) ==
  /\ threads[t].pc = "update_all"
  /\ threads[t].todo = <<>>
  /\ threads' = [threads EXCEPT ![t] = Idle]
  /\ UNCHANGED <<positions, snapshot, positions_file, dashboard>>

\* ProfessionalTradeManager.get_summary (the fields the model keeps).
get_summary(p) ==
  [status |-> value(p.status), action |-> value(p.action),
   current_option |-> p.current_option_price,
   pnl_percent |-> pnl_percent(p),
   stop_recommended |-> p.stops.recommended,
   score_overall |-> p.score.overall_score]

\* get_data of a page request: a cached page is returned as it is,
\* otherwise the summaries and the portfolio are computed from
\* manager.positions and cached.
get_data(t) ==
  /\ threads[t].pc = "idle"
  /\ ~dashboard.cached
  /\ dashboard' =
       [cached |-> TRUE,
        positions |-> [id \in DOMAIN positions |-> get_summary(positions[id])]]
  /\ UNCHANGED <<positions, snapshot, positions_file, threads>>

\* cache_get after the 60 seconds of the page cache have passed.
cache_expired ==
  /\ dashboard.cached
  /\ dashboard' = NoPage
  /\ UNCHANGED <<positions, snapshot, positions_file, threads>>

ConcNext ==
  \/ \E t \in Threads : refresh(t)
  \/ \E t \in Threads, snap \in ConcSnapshots : fetch_and_analyse(t, snap)
  \/ \E t \in Threads : stops_and_scaling(t)
  \/ \E t \in Threads : classify(t)
  \/ \E t \in Threads : save(t)
  \/ \E t \in Threads : update_all_done(t)
  \/ \E t \in Threads : get_data(t)
  \/ cache_expired

ConcSpec == ConcInit /\ [][ConcNext]_vars

\* A thread is inside update_position with stages still to run.
InProgress(t) == threads[t].pc \in {"stops", "classify"}
\* A thread is inside update_position.
InCycle(t) == threads[t].pc \in {"stops", "classify", "save"}

\* The Position a saved record was written from.
unsaved(d) ==
  [post_init(d) EXCEPT !.market.trend_daily = enum_of(TrendStrength, @),
                       !.market.regime = enum_of(MarketRegime, @)]

\* A record is whole when no cycle has touched it, or when its roll
\* analysis, score, status and action are the ones stages 10 to 12 compute
\* from the rest of it.
Whole(p) ==
  \/ p.status = "BUILDING" /\ p.current_dte = 0
  \/ p = status_stage(score_stage(roll_stage(p)))

\* C16: when a thread saves at the end of its cycle while the other threads
\* in a cycle work on other positions than its own, every record the store
\* then holds is whole: the roll analysis, score, status and action of one
\* cycle of that position together with the stops and scaling of the same
\* cycle.
C16_SavedRecordsWhole ==
  [][\A t \in Threads :
       ( /\ threads[t].pc = "save"
         /\ threads'[t].pc # "save"
         /\ \A u \in Threads \ {t} :
              InCycle(u) => threads[u].pos_id # threads[t].pos_id )
       => \A id \in DOMAIN positions_file' :
            Whole(unsaved(positions_file'[id]))]_vars

\* C17: when get_data computes the page from manager.positions, no thread
\* is inside an update_position cycle, with stages still to run, on one of
\* the positions it reads.
C17_AggregateReadsNoCycleInProgress ==
  [][(~dashboard.cached /\ dashboard'.cached)
       => \A t \in Threads :
            InProgress(t) => threads[t].pos_id \notin DOMAIN dashboard'.positions]_vars

----------------------------------------------------------------------------
(* The gateway, request by request.  One update_position cycle sends, in   *)
(* this order: the stock snapshot (and the previous-day bar if it gave     *)
(* nothing), the option snapshot (and the previous-day bar of the option   *)
(* if it gave nothing), the stock history for the IV rank and the stock    *)
(* history for the market context.  PolygonAPI._request returns the body   *)
(* of a 200 answer, None for another status or an exception (the timeout   *)
(* of 10 seconds included), and on a 429 sleeps 60 seconds and calls       *)
(* itself.  The recursion ends when the interpreter refuses a further      *)
(* frame: the RecursionError is caught by the except clause and the        *)
(* request returns None.  MaxRetry stands for that depth.                  *)

MaxRetry == 3

\* The request that follows when the current one gave data or gave nothing.
next_request(request, ok) ==
  CASE request = "stock_snapshot" ->
         IF ok THEN "option_snapshot" ELSE "stock_prev"
    [] request = "stock_prev" -> "option_snapshot"
    [] request = "option_snapshot" ->
         IF ok THEN "iv_history" ELSE "option_prev"
    [] request = "option_prev" -> "iv_history"
    [] request = "iv_history" -> "history"
    [] OTHER -> ""

\* The thread after the present request has returned: the next request, or
\* the stages of the cycle when history was the last one.
returned(th, ok, snap) ==
  [th EXCEPT !.request = next_request(th.request, ok),
             !.pc = IF th.request = "history" THEN "compute" ELSE "request",
             !.depth = 0,
             !.snap = snap]

\* get_option_snapshot from the previous-day bar: last, mark and volume.
OptionPrev(m) == [OptionFail EXCEPT !.last = m, !.mark = m, !.volume = 100]

\* The answers with status 200 to each request.
Answers(th) ==
  CASE th.request \in {"stock_snapshot", "stock_prev"} ->
         {[th.snap EXCEPT !.stock = [price |-> 80000]]}
    [] th.request = "option_snapshot" ->
         {[th.snap EXCEPT !.option = QuoteGood(m)] : m \in {125, 160}}
    [] th.request = "option_prev" ->
         {[th.snap EXCEPT !.option = OptionPrev(125)]}
    [] th.request = "iv_history" ->
         {[th.snap EXCEPT !.iv_history = IvHistoryMid]}
    [] OTHER -> {[th.snap EXCEPT !.history = HistoryUp]}

\* A manager holding the call "p1".
GatewayInit ==
  /\ positions = [id \in {"p1"} |-> ConcPositions[id]]
  /\ snapshot = GatewayDown(14)
  /\ positions_file = save_positions(positions, [id \in {} |-> 0])
  /\ threads = [t \in Threads |-> Idle]
  /\ dashboard = NoPage

\* update_position begins: nothing has been answered yet.
begin_update(t, pos_id, days) ==
  /\ threads[t].pc = "idle"
  /\ pos_id \in DOMAIN positions
  /\ days <= snapshot.days
  /\ threads' = [threads EXCEPT ![t] =
                   [Idle EXCEPT !.pc = "request", !.pos_id = pos_id,
                                !.request = "stock_snapshot",
                                !.snap = GatewayDown(days)]]
  /\ UNCHANGED <<positions, snapshot, positions_file, dashboard>>

\* status_code == 200
answer_200(t, snap) ==
  /\ threads[t].pc = "request"
  /\ snap \in Answers(threads[t])
  /\ threads' = [threads EXCEPT ![t] = returned(threads[t], TRUE, snap)]
  /\ UNCHANGED <<positions, snapshot, positions_file, dashboard>>

\* Another status, a timeout or any other exception: None.
answer_error(t) ==
  /\ threads[t].pc = "request"
  /\ threads' = [threads EXCEPT
                   ![t] = returned(threads[t], FALSE, threads[t].snap)]
  /\ UNCHANGED <<positions, snapshot, positions_file, dashboard>>

\* status_code == 429: time.sleep(60), then the same request again, one
\* frame deeper.
answer_429(t) ==
  /\ threads[t].pc = "request"
  /\ threads[t].depth < MaxRetry
  /\ threads' = [threads EXCEPT ![t].depth = threads[t].depth + 1]
  /\ UNCHANGED <<positions, snapshot, positions_file, dashboard>>

\* status_code == 429 at the deepest frame: RecursionError, caught: None.
answer_429_at_limit(t) ==
  /\ threads[t].pc = "request"
  /\ threads[t].depth = MaxRetry
  /\ threads' = [threads EXCEPT
                   ![t] = returned(threads[t], FALSE, threads[t].snap)]
  /\ UNCHANGED <<positions, snapshot, positions_file, dashboard>>

\* The stages of update_position on the answers, and save_positions.
complete_update(t) ==
  /\ threads[t].pc = "compute"
  /\ positions' =
       [positions EXCEPT ![threads[t].pos_id] =
          update_position(positions[threads[t].pos_id], threads[t].snap)]
  /\ snapshot' = threads[t].snap
  /\ positions_file' = save_positions(positions', positions_file)
  /\ threads' = [threads EXCEPT ![t] = Idle]
  /\ UNCHANGED dashboard

\* One thread: the cycles run one after the other.
GatewayNext ==
  \/ \E pos_id \in Ids, days \in {6, 14} : begin_update("t1", pos_id, days)
  \/ \E snap \in Answers(threads["t1"]) : answer_200("t1", snap)
  \/ answer_error("t1")
  \/ answer_429("t1")
  \/ answer_429_at_limit("t1")
  \/ complete_update("t1")

\* The gateway answers every request and the thread runs on.
GatewaySpec == GatewayInit /\ [][GatewayNext]_vars /\ WF_vars(GatewayNext)

\* C15: every answer of the gateway to a request, a rate-limit answer
\* included, ends that request: the thread goes on to the next request of
\* the cycle or to its computation, and no request is made twice.
C15_RateLimitIsFetchFailure ==
  [][\A t \in Threads :
       (threads[t].pc = "request" /\ threads'[t] # threads[t])
       => \/ threads'[t].pc # "request"
          \/ threads'[t].request # threads[t].request]_vars

----------------------------------------------------------------------------
(* The ladder of stop rules.                                               *)

\* The method _calculate_stops would select for p at the option price m.
MethodAt(p, m) ==
  select_stop([p EXCEPT !.current_option_price = m], p.stops).method

\* C24: the breakeven rule is applicable.  For every position of the store
\* with the default configuration and no runner active there is an option
\* price, between worthless and MaxMark (P&L -100% to +100%), at which the
\* cycle selects the breakeven stop (method BREAKEVEN).
C24_BreakevenApplicable ==
  \A id \in DOMAIN positions :
    LET p == positions[id] IN
      ( /\ p.breakeven_trigger_pct = breakeven_trigger_pct
        /\ p.atr_trail_trigger_pct = atr_trail_trigger_pct
        /\ ~p.scaling.runner_active )
      => \E m \in 0..MaxMark : MethodAt(p, m) = "BREAKEVEN"

\* The candidate stop that stops.method names.
Candidate(p) ==
  CASE p.stops.method = "ORIGINAL" -> p.stop_price
    [] p.stops.method = "BREAKEVEN" -> p.stops.breakeven
    [] p.stops.method = "ATR_TRAIL" -> p.stops.atr_trail
    [] OTHER -> p.stops.runner_trail

\* C25 as stated: after every update cycle stops.recommended equals the
\* candidate that stops.method names.
C25_RecommendedIsNamedCandidate ==
  \A id \in DOMAIN positions :
    Updated(positions[id]) =>
      positions[id].stops.recommended = Candidate(positions[id])

\* C25 amended: after every update cycle stops.method names the candidate
\* the cycle selected, and stops.recommended is either that candidate or
\* the recommendation of before the cycle, which the ratchet has kept.
C25_RecommendedIsCandidateOrKept ==
  [][\A id \in Kept :
       positions'[id].stops.recommended \in
         {Candidate(positions'[id]), positions[id].stops.recommended}]_vars

\* A call whose stop was trailed up and whose P&L has fallen back: the
\* method is ORIGINAL and the recommended stop is above stop_price.
C25_Witness ==
  \E id \in DOMAIN positions :
    LET p == positions[id] IN
      /\ Updated(p)
      /\ is_call(p)
      /\ p.stops.method = "ORIGINAL"
      /\ p.stops.recommended > p.stop_price

----------------------------------------------------------------------------
(* The runner and the scaling triggers over the cycles.                    *)

\* C26: once scaling.runner_closed is true it stays true in every later
\* cycle, and scaling.runner_exit_reason keeps the value of the cycle that
\* closed the runner.
C26_RunnerClosedIsFinal ==
  [][\A id \in Kept :
       positions[id].scaling.runner_closed
       => /\ positions'[id].scaling.runner_closed
          /\ positions'[id].scaling.runner_exit_reason
               = positions[id].scaling.runner_exit_reason]_vars

\* A runner closed at its extended target or at its trail, seen in a later
\* cycle at or below runner_min_dte: a closing cycle at that DTE would have
\* named DTE_CRITICAL.
C26_Witness ==
  \E id \in DOMAIN positions :
    LET p == positions[id] IN
      /\ p.scaling.runner_closed
      /\ p.scaling.runner_exit_reason \in {"EXTENDED_TARGET", "TRAIL_STOP"}
      /\ p.current_dte <= p.runner_min_dte

----------------------------------------------------------------------------
(* The classifier: branches that earlier rules narrow.                     *)

\* C27: whenever the status is WARNING_GAMMA the action is TIGHTEN_STOP:
\* the gamma explosion flag needs DTE < 7, and the time exit has taken
\* every such cycle with P&L below 30%.
C27_GammaWarningTightens ==
  \A id \in DOMAIN positions :
    LET p == positions[id] IN
      p.status = "WARNING_GAMMA"
      => /\ p.action = "TIGHTEN_STOP"
         /\ p.current_dte < 7
         /\ pnl_percent(p) >= 30

\* A gamma warning with the action TIGHTEN_STOP.
C27_Witness ==
  \E id \in DOMAIN positions :
    /\ positions[id].status = "WARNING_GAMMA"
    /\ positions[id].action = "TIGHTEN_STOP"
    /\ positions[id].gamma_analysis.is_near_expiry

----------------------------------------------------------------------------
(* The roll recommendation on its input range.  RollSpec starts from one   *)
(* position whose inputs to calculate_roll_recommendation are drawn from   *)
(* bounded sets and runs stages 10 to 12 of update_position on it.           *)

MaxRollDTE == 45

\* Days to expiration on both sides of the tiers 7, 14 and 21; P&L of -60%,
\* 0, +10%, +25%, +30%, +60% and +100%; a daily decay of 0 and of 5% of the
\* option price; IV ranks on both sides of 20.
RollInit ==
  /\ \E p \in
       {[added(Position("p1", ty, 80000, 80000, 100,
                        IF ty = "LONG_CALL" THEN 76000 ELSE 84000,
                        IF ty = "LONG_CALL" THEN 84000 ELSE 76000,
                        40, IF ty = "LONG_CALL" THEN 50 ELSE 0 - 50)) EXCEPT
           !.current_stock_price = s,
           !.current_option_price = m,
           !.current_dte = d,
           !.theta_analysis.decay_rate_pct = Rat(th, 1),
           !.greeks.iv_rank = r] :
          ty \in PositionType,
          s \in {78000, 80000, 82000},
          m \in {40, 100, 110, 125, 130, 160, 200},
          d \in {0, 7, 8, 14, 15, 21, 22, MaxRollDTE},
          th \in {0, 5},
          r \in {0, 19, 20, 50}} :
       positions = [id \in {p.id} |-> p]
  /\ snapshot = GatewayDown(MaxRollDTE)
  /\ positions_file = [id \in {} |-> 0]
  /\ threads = [t \in Threads |-> Idle]
  /\ dashboard = NoPage

\* Stages 10 to 12 of update_position.
RollAndClassify(pos_id) ==
  /\ pos_id \in DOMAIN positions
  /\ positions' =
       [positions EXCEPT
          ![pos_id] = status_stage(score_stage(roll_stage(positions[pos_id])))]
  /\ UNCHANGED <<snapshot, positions_file, threads, dashboard>>

RollNext == \E pos_id \in Ids : RollAndClassify(pos_id)

RollSpec == RollInit /\ [][RollNext]_vars

\* C28: above 14 days to expiration the roll urgency is never URGENT, the
\* status CONSIDER_ROLL is produced only at DTE <= 14, and with it the
\* action is one of ROLL_OUT, ROLL_UP, ROLL_DOWN.
C28_ConsiderRollOnlyNearExpiry ==
  \A id \in DOMAIN positions :
    LET p == positions[id] IN
      /\ p.current_dte > 14 => p.roll_analysis.roll_urgency # "URGENT"
      /\ p.status = "CONSIDER_ROLL"
         => /\ p.current_dte <= 14
            /\ p.action \in {"ROLL_OUT", "ROLL_UP", "ROLL_DOWN"}

\* CONSIDER_ROLL between 8 and 14 days: the DTE warning (25) with the
\* theta (20) and IV (10) reasons.
C28_Witness ==
  \E id \in DOMAIN positions :
    LET p == positions[id] IN
      /\ p.status = "CONSIDER_ROLL"
      /\ p.current_dte > 7
      /\ p.roll_analysis.urgency_score = 55

----------------------------------------------------------------------------
(* Order of the scaling triggers                                           *)

\* The scaling state of p after a cycle at option price m, had its
\* thresholds been t1 and t2.
ScaledAt(p, t1, t2, m) ==
  check_scaling([p EXCEPT !.current_option_price = m,
                          !.scaling.t1_target_pct = t1,
                          !.scaling.t2_target_pct = t2],
                p.current_dte).scaling

\* C29: with the T1 threshold not above the T2 threshold, t2_triggered
\* implies t1_triggered: in every state of every position, and after one more
\* cycle of it at any option price under any such pair of thresholds
\* (25, 50 or 100 percent).
C29_T2ImpliesT1 ==
  \A id \in DOMAIN positions :
    LET p == positions[id] IN
      /\ (p.scaling.t1_target_pct <= p.scaling.t2_target_pct
           /\ p.scaling.t2_triggered) => p.scaling.t1_triggered
      /\ \A t1, t2 \in {25, 50, 100} : \A m \in Marks :
           (t1 <= t2 /\ ScaledAt(p, t1, t2, m).t2_triggered)
              => ScaledAt(p, t1, t2, m).t1_triggered

\* Both triggers fired in one cycle: the option went from below T1 to T2.
C29_Witness ==
  \E id \in DOMAIN positions :
    LET sc == positions[id].scaling IN
      /\ sc.t2_triggered /\ sc.t1_triggered
      /\ sc.t1_date = sc.t2_date
      /\ sc.t1_price = sc.t2_price
      /\ sc.t1_price - 100 >= sc.t2_target_pct

----------------------------------------------------------------------------
(* update_all concurrent with add_position and remove_position.            *)
(* update_all iterates self.positions.items() itself, not a copy; the      *)
(* try/except is inside the loop body, around update_position.  A dict     *)
(* iterator remembers the size of the dict when it was created (di_used),  *)
(* the number of items still expected (len) and an index into the entries  *)
(* (di_pos); every step raises RuntimeError when the size has changed, and *)
(* when it finds an entry after len has reached 0.  Entries keep their     *)
(* insertion order and a deleted entry leaves a hole.                      *)

\* The entries of manager.positions: "p1" and "p2" were added at start-up,
\* "p3" is the position a later add_position brings.
EditOrder == <<"p1", "p2", "p3">>

\* What the gateway answers during the scenario.
EditSnapshots ==
  {Snap([price |-> 80000], QuoteGood(125), HistoryUp, IvHistoryMid, 14)}

\* A request thread outside update_all.
EditIdle ==
  [pc |-> "idle", pos_id |-> "", todo |-> <<>>, request |-> "", depth |-> 0,
   snap |-> GatewayDown(14),
   di_used |-> 0, len |-> 0, di_pos |-> 1, whole |-> {}, done |-> {}]

EditInit ==
  /\ positions = ConcPositions
  /\ snapshot = GatewayDown(14)
  /\ positions_file = save_positions(ConcPositions, [id \in {} |-> 0])
  /\ threads = [t \in Threads |-> EditIdle]
  /\ dashboard = NoPage

\* /refresh: the cache is cleared and update_all creates the iterator of
\* self.positions.items().  whole is the set of positions present since
\* the pass began, done the set update_position was called for.
start_update_all(t) ==
  /\ threads[t].pc = "idle"
  /\ threads' = [threads EXCEPT
                   ![t] = [EditIdle EXCEPT
                             !.pc = "update_all",
                             !.di_used = Cardinality(DOMAIN positions),
                             !.len = Cardinality(DOMAIN positions),
                             !.whole = DOMAIN positions]]
  /\ dashboard' = NoPage
  /\ UNCHANGED <<positions, snapshot, positions_file>>

\* The entries at or after the iterator's index that hold a position.
entries_left(t) ==
  {i \in threads[t].di_pos .. Len(EditOrder) : EditOrder[i] \in DOMAIN positions}

\* The iterator yields the next position.
yields(t) ==
  /\ threads[t].pc = "update_all"
  /\ threads[t].di_used = Cardinality(DOMAIN positions)
  /\ entries_left(t) # {}
  /\ threads[t].len > 0

next_entry(t) == CHOOSE i \in entries_left(t) : \A j \in entries_left(t) : i <= j

iterated(t, i) ==
  [threads EXCEPT ![t].di_pos = i + 1,
                  ![t].len = threads[t].len - 1,
                  ![t].done = threads[t].done \cup {EditOrder[i]}]

\* One turn of the loop: update_position runs to its end.
update_all_step(t, snap) ==
  /\ yields(t)
  /\ snap.days <= snapshot.days
  /\ LET pos_id == EditOrder[next_entry(t)] IN
       /\ positions' = [positions EXCEPT
                          ![pos_id] = update_position(positions[pos_id], snap)]
       /\ positions_file' = save_positions(positions', positions_file)
  /\ snapshot' = snap
  /\ threads' = iterated(t, next_entry(t))
  /\ UNCHANGED dashboard

\* One turn of the loop in which update_position raises, at its start or
\* after its analytics stages: the except clause logs and the loop goes on.
update_all_except(t, snap, partial) ==
  /\ yields(t)
  /\ snap.days <= snapshot.days
  /\ LET pos_id == EditOrder[next_entry(t)] IN
       positions' = IF partial
                    THEN [positions EXCEPT
                            ![pos_id] = analytics_stages(positions[pos_id], snap)]
                    ELSE positions
  /\ snapshot' = IF partial THEN snap ELSE snapshot
  /\ threads' = iterated(t, next_entry(t))
  /\ UNCHANGED <<positions_file, dashboard>>

\* The iterator is exhausted: update_all returns.
update_all_return(t) ==
  /\ threads[t].pc = "update_all"
  /\ threads[t].di_used = Cardinality(DOMAIN positions)
  /\ entries_left(t) = {}
  /\ threads' = [threads EXCEPT ![t].pc = "returned"]
  /\ UNCHANGED <<positions, snapshot, positions_file, dashboard>>

\* The for statement raises RuntimeError (dictionary changed size during
\* iteration, or dictionary keys changed during iteration), outside the
\* try of the loop body: update_all ends with the exception.
update_all_raise(t) ==
  /\ threads[t].pc = "update_all"
  /\ \/ threads[t].di_used # Cardinality(DOMAIN positions)
     \/ entries_left(t) # {} /\ threads[t].len = 0
  /\ threads' = [threads EXCEPT ![t].pc = "raised"]
  /\ UNCHANGED <<positions, snapshot, positions_file, dashboard>>

\* /refresh answers (the redirect, or the error page of the exception).
respond(t) ==
  /\ threads[t].pc \in {"returned", "raised"}
  /\ threads' = [threads EXCEPT ![t] = EditIdle]
  /\ UNCHANGED <<positions, snapshot, positions_file, dashboard>>

\* /delete or /close in request thread t: remove_position.
delete(t, pos_id) ==
  /\ threads[t].pc = "idle"
  /\ pos_id \in DOMAIN positions
  /\ positions' = [id \in DOMAIN positions \ {pos_id} |-> positions[id]]
  /\ positions_file' = save_positions(positions', positions_file)
  /\ threads' = [u \in Threads |->
                   [threads[u] EXCEPT !.whole = threads[u].whole \ {pos_id}]]
  /\ UNCHANGED <<snapshot, dashboard>>

\* add_position in request thread t, of a position with a new id.
add(t, pos) ==
  /\ threads[t].pc = "idle"
  /\ pos.id \notin DOMAIN positions
  /\ positions' = [id \in DOMAIN positions \cup {pos.id} |->
                     IF id = pos.id THEN added(pos) ELSE positions[id]]
  /\ positions_file' = save_positions(positions', positions_file)
  /\ UNCHANGED <<snapshot, threads, dashboard>>

\* The requests of the scenario: /refresh is served by thread t1, and
\* /delete, /close and the calls of add_position by thread t2.
EditNext ==
  \/ start_update_all("t1")
  \/ \E snap \in EditSnapshots : update_all_step("t1", snap)
  \/ \E snap \in EditSnapshots, partial \in BOOLEAN :
        update_all_except("t1", snap, partial)
  \/ update_all_return("t1")
  \/ update_all_raise("t1")
  \/ respond("t1")
  \/ \E pos_id \in {"p1", "p2"} : delete("t2", pos_id)
  \/ add("t2", Position("p3", "LONG_CALL", 80000, 80000, 100, 76000, 84000,
                        40, 50))

EditSpec == EditInit /\ [][EditNext]_vars

\* C30: when update_all ends, update_position has been called for every
\* position that was in the manager during the whole pass, whatever
\* add_position and remove_position did meanwhile.
C30_PassCoversPresentPositions ==
  \A t \in Threads :
    threads[t].pc \in {"returned", "raised"}
      => threads[t].whole \subseteq threads[t].done

----------------------------------------------------------------------------
(* options_analytics.calculate_bs_greeks.  Floats are kept in fixed point, *)
(* in units of 1/FP; S and K are whole dollars, T is in years.  delta,     *)
(* theta and vega are returned in 1/FP (round(x, 4)) and gamma in          *)
(* millionths (round(x, 6)).                                               *)

FP == 10000
MaxSpot == 110

\* math.sqrt of n/FP, in 1/FP.
fp_sqrt(n) == CHOOSE s \in 0 .. 2 * FP : s * s <= n * FP /\ n * FP < (s + 1) * (s + 1)

\* math.exp of x/FP for -4 <= x/FP <= 0, by its power series in Horner
\* form; T(k, rest) is the factor 1 + (x/k) * rest.
fp_exp(x) ==
  LET T(k, rest) == FP + ((x \div k) * rest) \div FP
  IN  T(1, T(2, T(3, T(4, T(5, T(6, T(7, T(8, T(9, T(10, T(11, T(12,
        T(13, T(14, T(15, T(16, FP))))))))))))))))

\* math.log of x/FP for x > 0 near 1: 2 * atanh((x - 1) / (x + 1)).
fp_log(x) ==
  LET y  == ((x - FP) * FP) \div (x + FP)
      y2 == (y * y) \div FP
  IN  2 * (y + (((y * y2) \div FP) \div 3)
             + (((((y * y2) \div FP) * y2) \div FP) \div 5))

\* norm_cdf: the polynomial approximation of the source.
norm_cdf(x) ==
  LET sign == IF x >= 0 THEN 1 ELSE 0 - 1
      xx == (Abs(x) * 7071) \div FP
      t == (FP * FP) \div (FP + (3276 * xx) \div FP)
      h1 == (10614 * t) \div FP - 14532
      h2 == (h1 * t) \div FP + 14214
      h3 == (h2 * t) \div FP - 2845
      h4 == (h3 * t) \div FP + 2548
      y == FP - (((h4 * t) \div FP) * fp_exp(0 - ((xx * xx) \div FP))) \div FP
  IN  (FP + sign * y) \div 2

\* norm_pdf: exp(-x*x/2) / sqrt(2*pi).
norm_pdf(x) == (fp_exp(0 - ((x * x) \div (2 * FP))) * 3989) \div FP

\* str.lower on the option types the callers pass.
lower(option_type) ==
  CASE option_type = "CALL" -> "call"
    [] option_type = "PUT" -> "put"
    [] OTHER -> option_type

calculate_bs_greeks(S, K, T, r, sigma, option_type) ==
  IF T <= 0 \/ sigma <= 0 \/ S <= 0 \/ K <= 0
  THEN [delta |-> FP \div 2, gamma |-> 0, theta |-> 0, vega |-> 0]
  ELSE
    LET sqrt_T == fp_sqrt(T)
        vol == (sigma * sqrt_T) \div FP
        drift == ((r + ((sigma * sigma) \div FP) \div 2) * T) \div FP
        d1 == ((fp_log((S * FP) \div K) + drift) * FP) \div vol
        d2 == d1 - vol
        decay == (S * ((norm_pdf(d1) * sigma) \div FP) * (FP \div 2)) \div sqrt_T
        carry == (((r * K) * fp_exp(0 - ((r * T) \div FP))) \div FP)
    IN  [delta |-> IF lower(option_type) = "call"
                   THEN norm_cdf(d1) ELSE norm_cdf(d1) - FP,
         gamma |-> (((norm_pdf(d1) * FP) \div vol) * 100) \div S,
         theta |-> IF lower(option_type) = "call"
                   THEN (0 - decay - (carry * norm_cdf(d2)) \div FP) \div 365
                   ELSE (0 - decay + (carry * norm_cdf(0 - d2)) \div FP) \div 365,
         vega |-> (S * ((norm_pdf(d1) * sqrt_T) \div FP)) \div 100]

\* The arguments of the call: spot and strike on both sides of 0, expiries
\* of -1, 0, 1/4 and 1 year, rates of 0 and 5%, volatilities of -20%, 0,
\* 20% and 40%.
BsInit ==
  /\ positions = [id \in {} |-> 0]
  /\ snapshot = GatewayDown(MaxDTE)
  /\ positions_file = [id \in {} |-> 0]
  /\ \E a \in [S : {0 - 100, 0, 90, 100, MaxSpot}, K : {0, 100},
              T : {0 - FP, 0, FP \div 4, FP}, r : {0, 500},
              sigma : {0 - 2000, 0, 2000, 4000},
              option_type : {"call", "put", "PUT"}] :
       threads = [t \in Threads |->
                    [pc |-> "called", args |-> a,
                     greeks |-> [delta |-> 0, gamma |-> 0, theta |-> 0,
                                 vega |-> 0]]]
  /\ dashboard = NoPage

\* A thread's call of calculate_bs_greeks returns.
bs_greeks_returns(t) ==
  /\ threads[t].pc = "called"
  /\ LET a == threads[t].args IN
       threads' = [threads EXCEPT
                     ![t].pc = "returned",
                     ![t].greeks = calculate_bs_greeks(a.S, a.K, a.T, a.r,
                                                       a.sigma, a.option_type)]
  /\ UNCHANGED <<positions, snapshot, positions_file, dashboard>>

BsNext == \E t \in Threads : bs_greeks_returns(t)

BsSpec == BsInit /\ [][BsNext]_vars

\* C21: for non-positive S, K, T or sigma calculate_bs_greeks returns
\* gamma = theta = vega = 0 with a delta of +0.5 for a call and -0.5 for a
\* put, and the delta it returns for a put is within [-1, 0] on every input.
C21_DegenerateGreeks ==
  \A t \in Threads :
    threads[t].pc = "returned" =>
      LET a == threads[t].args
          g == threads[t].greeks
          call == lower(a.option_type) = "call"
          degenerate == a.T <= 0 \/ a.sigma <= 0 \/ a.S <= 0 \/ a.K <= 0
      IN  /\ degenerate =>
               /\ g.gamma = 0 /\ g.theta = 0 /\ g.vega = 0
               /\ g.delta = IF call THEN FP \div 2 ELSE 0 - (FP \div 2)
          /\ ~call => (0 - FP <= g.delta /\ g.delta <= 0)

----------------------------------------------------------------------------
(* The portfolio aggregate.  The page of cockpit.py hands the manager's    *)
(* positions to portfolio_risk.get_portfolio_risk_dict;                    *)
(* position_manager.analyze_portfolio takes a list of position records     *)
(* (dicts).  Portfolio deltas are kept in hundredths of a share for the    *)
(* first (greeks.delta is in 1/100) and in 1/FP of a share for the second. *)

\* Position.quantity, the contracts of the position.
quantity(p) == IF p.id = "p2" THEN 2 ELSE 1

\* PortfolioRiskAnalyzer._calculate_greeks: total_delta over pos_list.
RECURSIVE calculate_greeks(_)
calculate_greeks(pos_list) ==
  IF pos_list = <<>> THEN 0
  ELSE LET pos == Head(pos_list)
           delta == PyOr(pos.greeks.delta, 50) * quantity(pos)
       IN  (IF ~is_call(pos) THEN 0 - Abs(delta) ELSE delta)
             + calculate_greeks(Tail(pos_list))

\* get_data: the summaries and pos_list of the manager's positions, and
\* the portfolio of get_portfolio_risk_dict.
portfolio_page(t) ==
  /\ threads[t].pc = "idle"
  /\ dashboard' =
       [cached |-> TRUE,
        positions |-> [id \in DOMAIN positions |-> get_summary(positions[id])],
        portfolio |->
          [greeks |-> [total_delta |->
             calculate_greeks([i \in 1 .. Len(PositionOrder) |->
                                 positions[PositionOrder[i]]])]]]
  /\ UNCHANGED <<positions, snapshot, positions_file, threads>>

\* The manager of the scenario: the call "p1", and the put "p2" stored
\* without greeks.
PortfolioPositions ==
  [id \in {"p1", "p2"} |->
     IF id = "p1"
     THEN added(Position("p1", "LONG_CALL", 80000, 80000, 100, 76000, 84000,
                         40, 50))
     ELSE added(Position("p2", "LONG_PUT", 84000, 84000, 100, 88000, 80000,
                         0, 0))]

\* What the gateway answers for a position: the quote of its option (a put
\* has a negative delta).
PortfolioSnapshots(pos_id) ==
  {IF pos_id = "p1"
   THEN Snap([price |-> 80000], QuoteGood(125), HistoryUp, IvHistoryMid, 14)
   ELSE Snap([price |-> 84000],
             OptionQuote(100, 100, 100, 100, 1000, 0 - 40, 2, 0 - 1, 10, 40),
             HistoryDown, IvHistoryMid, 14)}

\* The position records handed to analyze_portfolio: dollars for the
\* underlying and the strike, cents for the option, days for the
\* expiration, percent for the IV, 1/100 for the entry delta; exited is the
\* sum of the contracts of partial_exits.
PositionDicts ==
  [symbol : {"NVDA"}, direction : {"CALL", "PUT"}, strike : {100},
   dte : {0, 91}, contracts : {2}, exited : {1}, entry_price : {100},
   entry_delta : {50}, entry_iv : {0, 40}, entry_underlying : {100}]

\* analyze_greeks: the Black-Scholes greeks of the record at the fetched
\* price.
analyze_greeks(d, underlying_price) ==
  LET T == IF d.dte > 0 THEN (d.dte * FP) \div 365 ELSE FP \div 100
      iv == PyOr(d.entry_iv, 35) * 100
      greeks == calculate_bs_greeks(underlying_price, d.strike, T, 500, iv,
                                    lower(d.direction))
  IN  [delta |-> greeks.delta,
       theta_daily_cost |-> Abs(greeks.theta) * d.contracts * 100]

\* analyze_position on the answers of get_underlying_quote (price, 0 when
\* it fails) and of fetch_bars / fetch_spy_bars, whose technical analysis
\* gives the health of the trade.
analyze_position(d, price, health) ==
  LET underlying_price == IF price = 0 THEN PyOr(d.entry_underlying, 100)
                          ELSE price
      entry_delta == PyOr(d.entry_delta, 50)
      current_price ==
        Max(1, d.entry_price
                 + (underlying_price - d.entry_underlying) * entry_delta)
  IN  [symbol |-> d.symbol,
       pnl_dollars |-> (current_price - d.entry_price) * d.contracts * 100,
       contracts_remaining |-> d.contracts - d.exited,
       greeks |-> analyze_greeks(d, underlying_price),
       health_score |-> health]

PortfolioInit ==
  /\ positions = PortfolioPositions
  /\ snapshot = GatewayDown(14)
  /\ positions_file = save_positions(PortfolioPositions, [id \in {} |-> 0])
  /\ \E d \in PositionDicts :
       threads = [t \in Threads |->
                    [pc |-> "idle", args |-> <<d, [d EXCEPT !.direction = "CALL"]>>,
                     todo |-> <<>>, requests |-> <<>>, analyses |-> <<>>,
                     total_delta |-> 0, heat_map |-> <<>>]]
  /\ dashboard = NoPage

\* analyze_portfolio is called with the thread's list of records.
analyze_portfolio_called(t) ==
  /\ threads[t].pc = "idle"
  /\ threads' = [threads EXCEPT ![t].pc = "analyze_portfolio",
                                ![t].todo = threads[t].args,
                                ![t].requests = <<>>,
                                ![t].analyses = <<>>]
  /\ UNCHANGED <<positions, snapshot, positions_file, dashboard>>

\* One turn of the loop of analyze_portfolio: analyze_position fetches the
\* quote and the bars of the record and derives its analysis.
analyze_portfolio_step(t, price, health) ==
  /\ threads[t].pc = "analyze_portfolio"
  /\ threads[t].todo # <<>>
  /\ threads' =
       [threads EXCEPT
          ![t].todo = Tail(threads[t].todo),
          ![t].requests = threads[t].requests \o
             <<"get_underlying_quote", "fetch_bars", "fetch_spy_bars">>,
          ![t].analyses = Append(threads[t].analyses,
             analyze_position(Head(threads[t].todo), price, health))]
  /\ UNCHANGED <<positions, snapshot, positions_file, dashboard>>

\* total_delta of analyze_portfolio over the analyses.
RECURSIVE total_delta(_)
total_delta(analyses) ==
  IF analyses = <<>> THEN 0
  ELSE Head(analyses).greeks.delta * Head(analyses).contracts_remaining * 100
         + total_delta(Tail(analyses))

\* analyze_portfolio returns its totals and the heat map;
\* heat_map.sort(key=health_score) of two entries is a stable ascending
\* sort.
analyze_portfolio_returns(t) ==
  /\ threads[t].pc = "analyze_portfolio"
  /\ threads[t].todo = <<>>
  /\ LET analyses == threads[t].analyses
         hm == [i \in 1 .. Len(analyses) |->
                  [symbol |-> analyses[i].symbol,
                   health_score |-> analyses[i].health_score]]
     IN  threads' = [threads EXCEPT
                       ![t].pc = "idle",
                       ![t].total_delta = total_delta(analyses),
                       ![t].heat_map =
                          IF Len(hm) = 2 /\ hm[2].health_score < hm[1].health_score
                          THEN <<hm[2], hm[1]>> ELSE hm]
  /\ UNCHANGED <<positions, snapshot, positions_file, dashboard>>

PortfolioNext ==
  \/ \E pos_id \in {"p1", "p2"} : \E snap \in PortfolioSnapshots(pos_id) :
        UpdatePosition(pos_id, snap)
  \/ portfolio_page("t1")
  \/ cache_expired
  \/ analyze_portfolio_called("t2")
  \/ \E answer \in {<<0, 70>>, <<104, 30>>} :
        analyze_portfolio_step("t2", answer[1], answer[2])
  \/ analyze_portfolio_returns("t2")

PortfolioSpec == PortfolioInit /\ [][PortfolioNext]_vars

\* The sum the portfolio delta is specified as: delta x quantity x 100 of
\* every position, with the position's own delta (here in 1/100).
RECURSIVE delta_sum(_)
delta_sum(ids) ==
  IF ids = {} THEN 0
  ELSE LET id == CHOOSE i \in ids : TRUE
       IN  positions[id].greeks.delta * quantity(positions[id])
             + delta_sum(ids \ {id})

\* C22: the total delta of the portfolio the page computes is the sum over
\* the open positions of delta x quantity x 100.
C22_TotalDeltaIsSum ==
  [][dashboard'.cached /\ dashboard' # dashboard
       => dashboard'.portfolio.greeks.total_delta = delta_sum(DOMAIN positions)]_vars

====
